---- MODULE Spec2Model ----
(***************************************************************************)
(* Backup / restore protocol and policy report of s3_lifecycle_manager.    *)
(*                                                                         *)
(* The state is the backup directory (file name -> file text), the live    *)
(* lifecycle rules of every bucket as held by the storage service, the     *)
(* record of the last completed call (its arguments, its outcome, the      *)
(* storage calls it made and the log records it emitted), the flat policy  *)
(* records gathered by the manager (self.policies), the report files of    *)
(* the working directory (file name -> file text) and the two accumulators *)
(* of the Glue job scanner (self.job_details, self.buckets).               *)
(***************************************************************************)
EXTENDS Integers, Sequences, FiniteSets, TLC

VARIABLES files, live, call, policies, reports, glue

vars == <<files, live, call, policies, reports, glue>>

(***************************************************************************)
(* Bounds of the model.                                                    *)
(***************************************************************************)
\* Number of points at which a failing write may stop inside the text.
MaxCuts == 1

(***************************************************************************)
(* Python values as they travel through json.dump / json.load: strings,    *)
(* integers, lists and insertion-ordered dicts with string keys.           *)
(***************************************************************************)
PyStr(s) == [t |-> "str", s |-> s, n |-> 0, kids |-> <<>>]
PyInt(n) == [t |-> "int", s |-> "", n |-> n, kids |-> <<>>]
PyList(items) == [t |-> "list", s |-> "", n |-> 0, kids |-> items]
PyItem(k, v) == [t |-> "item", s |-> k, n |-> 0, kids |-> <<v>>]
PyDict(items) == [t |-> "dict", s |-> "", n |-> 0, kids |-> items]

\* A datetime.datetime, as boto3 gives for the Date of an Expiration; s is
\* what str() gives for it.
PyDate(text) == [t |-> "datetime", s |-> text, n |-> 0, kids |-> <<>>]

\* json.dump can encode the value: no datetime is in it.
RECURSIVE Encodable(_)
Encodable(v) == v.t # "datetime" /\ \A i \in DOMAIN v.kids : Encodable(v.kids[i])

\* Python truthiness, as used by "if not rules".
Truthy(v) ==
    CASE v.t = "str" -> v.s # ""
      [] v.t = "int" -> v.n # 0
      [] OTHER -> v.kids # <<>>

(***************************************************************************)
(* json.dump(rules, file, ensure_ascii=False, indent=4): the text written. *)
(***************************************************************************)
RECURSIVE Spaces(_)
Spaces(n) == IF n = 0 THEN "" ELSE "    " \o Spaces(n - 1)

NewLine(level) == "\n" \o Spaces(level)

\* Stands in a dumped text for the place where the encoder met a value it
\* cannot encode and raised TypeError.
TypeErrorMark == "\t"

RECURSIVE JsonDump(_, _)
RECURSIVE JsonDumpItems(_, _, _)
JsonDumpItems(items, i, level) ==
    LET item == items[i]
        text == IF item.t = "item"
                  THEN "\"" \o item.s \o "\": " \o JsonDump(item.kids[1], level)
                  ELSE JsonDump(item, level)
    IN  IF i = Len(items)
          THEN text
          ELSE text \o "," \o NewLine(level) \o JsonDumpItems(items, i + 1, level)

JsonDump(v, level) ==
    CASE v.t = "str" -> "\"" \o v.s \o "\""
      [] v.t = "int" -> ToString(v.n)
      [] v.t = "datetime" -> TypeErrorMark
      [] v.t = "list" ->
           IF v.kids = <<>> THEN "[]"
           ELSE "[" \o NewLine(level + 1) \o JsonDumpItems(v.kids, 1, level + 1)
                    \o NewLine(level) \o "]"
      [] v.t = "dict" ->
           IF v.kids = <<>> THEN "{}"
           ELSE "{" \o NewLine(level + 1) \o JsonDumpItems(v.kids, 1, level + 1)
                    \o NewLine(level) \o "}"


(***************************************************************************)
(* json.load(file): a recursive-descent reading of the text.  A result is  *)
(* [ok, v, pos]: whether a value was read, the value, and the position of  *)
(* the first character after it.                                           *)
(***************************************************************************)
Ch(s, i) == IF i >= 1 /\ i <= Len(s) THEN SubSeq(s, i, i) ELSE ""

Whitespace == {" ", "\n", "\t", "\r"}
Digits == {"0", "1", "2", "3", "4", "5", "6", "7", "8", "9"}

DigitVal(c) ==
    CASE c = "0" -> 0 [] c = "1" -> 1 [] c = "2" -> 2 [] c = "3" -> 3
      [] c = "4" -> 4 [] c = "5" -> 5 [] c = "6" -> 6 [] c = "7" -> 7
      [] c = "8" -> 8 [] c = "9" -> 9

\* First position at or after i whose character is not in the set cs.
RECURSIVE SkipWhile(_, _, _)
SkipWhile(s, i, cs) ==
    IF Ch(s, i) \in cs THEN SkipWhile(s, i + 1, cs) ELSE i

SkipWs(s, i) == SkipWhile(s, i, Whitespace)

RECURSIVE DigitsVal(_, _, _)
DigitsVal(s, i, j) ==
    IF j < i THEN 0 ELSE 10 * DigitsVal(s, i, j - 1) + DigitVal(Ch(s, j))

ParseFail == [ok |-> FALSE, v |-> PyInt(0), pos |-> 0]
ParseOk(v, pos) == [ok |-> TRUE, v |-> v, pos |-> pos]

\* Position of the first quote at or after i, or Len(s) + 1 if there is none.
RECURSIVE FindQuote(_, _)
FindQuote(s, i) ==
    IF i > Len(s) \/ Ch(s, i) = "\"" THEN i ELSE FindQuote(s, i + 1)

\* A string literal starting at the quote at position i (no escapes).
ParseString(s, i) ==
    LET j == FindQuote(s, i + 1)
    IN  IF j <= Len(s) THEN ParseOk(PyStr(SubSeq(s, i + 1, j - 1)), j + 1)
        ELSE ParseFail

RECURSIVE ParseValue(_, _)
RECURSIVE ParseElements(_, _, _)
RECURSIVE ParseMembers(_, _, _)

\* Elements of an array, the first one starting at or after position i.
ParseElements(s, i, acc) ==
    LET r == ParseValue(s, i)
        j == SkipWs(s, r.pos)
    IN  IF ~r.ok THEN ParseFail
        ELSE IF Ch(s, j) = "," THEN ParseElements(s, j + 1, Append(acc, r.v))
        ELSE IF Ch(s, j) = "]" THEN ParseOk(PyList(Append(acc, r.v)), j + 1)
        ELSE ParseFail

\* Members of an object, the first key starting at or after position i.
ParseMembers(s, i, acc) ==
    LET k == SkipWs(s, i)
        key == IF Ch(s, k) = "\"" THEN ParseString(s, k) ELSE ParseFail
        c == SkipWs(s, key.pos)
        r == IF key.ok /\ Ch(s, c) = ":" THEN ParseValue(s, c + 1) ELSE ParseFail
        j == SkipWs(s, r.pos)
        item == PyItem(key.v.s, r.v)
    IN  IF ~r.ok THEN ParseFail
        ELSE IF Ch(s, j) = "," THEN ParseMembers(s, j + 1, Append(acc, item))
        ELSE IF Ch(s, j) = "}" THEN ParseOk(PyDict(Append(acc, item)), j + 1)
        ELSE ParseFail

ParseValue(s, i) ==
    LET k == SkipWs(s, i)
        c == Ch(s, k)
    IN  CASE c = "\"" -> ParseString(s, k)
          [] c \in Digits ->
               LET e == SkipWhile(s, k, Digits)
               IN  ParseOk(PyInt(DigitsVal(s, k, e - 1)), e)
          [] c = "[" ->
               IF Ch(s, SkipWs(s, k + 1)) = "]"
                 THEN ParseOk(PyList(<<>>), SkipWs(s, k + 1) + 1)
                 ELSE ParseElements(s, k + 1, <<>>)
          [] c = "{" ->
               IF Ch(s, SkipWs(s, k + 1)) = "}"
                 THEN ParseOk(PyDict(<<>>), SkipWs(s, k + 1) + 1)
                 ELSE ParseMembers(s, k + 1, <<>>)
          [] OTHER -> ParseFail

\* The whole text must be one value, surrounded by whitespace only.
JsonLoad(text) ==
    LET r == ParseValue(text, 1)
    IN  IF r.ok /\ SkipWs(text, r.pos) = Len(text) + 1 THEN r ELSE ParseFail

(***************************************************************************)
(* The buckets and rule sequences the calls are made with.                 *)
(***************************************************************************)
Buckets == {"b1", "b2"}

Rule1 ==
    PyDict(<<PyItem("ID", PyStr("test-rule")),
             PyItem("Filter", PyDict(<<PyItem("Prefix", PyStr(""))>>)),
             PyItem("Status", PyStr("Enabled")),
             PyItem("Transitions",
                    PyList(<<PyDict(<<PyItem("Days", PyInt(30)),
                                      PyItem("StorageClass", PyStr("STANDARD_IA"))>>)>>))>>)

Rule2 ==
    PyDict(<<PyItem("Status", PyStr("Enabled")),
             PyItem("ID", PyStr("r1")),
             PyItem("Expiration", PyDict(<<PyItem("Days", PyInt(365))>>))>>)

NoRules == PyList(<<>>)

\* Rule sequences handed to export: an empty one and two non-empty ones.
RuleSeqs == {NoRules, PyList(<<Rule1>>), PyList(<<Rule2, Rule1>>)}

\* The live rules of the buckets before any restore.
InitialLive == {[b \in Buckets |-> IF b = "b1" THEN NoRules ELSE PyList(<<Rule2>>)]}

\* The rule sequences a call may give for a bucket.
RuleSeqsOf(b) == IF b = "b1" THEN RuleSeqs ELSE {NoRules, PyList(<<Rule2, Rule1>>)}

\* A lifecycle_policies dict: its items in iteration order, keys distinct.
Mappings ==
    {<<>>}
    \cup UNION {{<<[bucket |-> b, rules |-> r]>> : r \in RuleSeqsOf(b)} : b \in Buckets}
    \cup {<<[bucket |-> "b1", rules |-> r1], [bucket |-> "b2", rules |-> r2]>> :
             r1 \in RuleSeqsOf("b1"), r2 \in RuleSeqsOf("b2")}

(***************************************************************************)
(* The backup directory.                                                   *)
(***************************************************************************)
BackupSuffix == "_lifecycle_backup.json"

\* os.path.join(self.backup_dir, f"{bucket}_lifecycle_backup.json")
BackupFile(bucket) == bucket \o BackupSuffix

EndsWith(f, suffix) ==
    /\ Len(f) >= Len(suffix)
    /\ SubSeq(f, Len(f) - Len(suffix) + 1, Len(f)) = suffix

Exists(fs, name) == name \in DOMAIN fs

\* Faulty variant: the file is opened with mode "a" instead of "w".
AppendFile(fs, name, text) ==
    [f \in DOMAIN fs \cup {name} |->
        IF f # name THEN fs[f]
        ELSE IF name \in DOMAIN fs THEN fs[name] \o text ELSE text]

\* open(name, "w") followed by a complete write of text.
WriteFile(fs, name, text) ==
    [f \in DOMAIN fs \cup {name} |-> IF f = name THEN text ELSE fs[f]]

EmptyDir == [f \in {} |-> ""]

\* GlueLogPathsManager.__init__: no job detail, no bucket.
NoGlue == [job_details |-> <<>>, buckets |-> {}]

\* A bucket that no longer exists: only its backup file is left.
GoneBucket == "gone"

\* Files of the directory that are no backup files.
OtherFiles == {"notes.txt", BackupFile("b1") \o ".bak"}

\* Directories found at construction: empty, or holding files written
\* earlier by other hands (an empty file, JSON that is no rule sequence,
\* the backup of a bucket deleted since, files that are no backups).
InitialDirs ==
    { EmptyDir,
      WriteFile(WriteFile(EmptyDir, BackupFile("b1"), ""), BackupFile("b2"), "{}"),
      [f \in {BackupFile("b1"), BackupFile("b2"), BackupFile(GoneBucket)} \cup OtherFiles |->
          IF f = BackupFile("b1") THEN "7"
          ELSE IF f = BackupFile("b2") THEN "[\n    7\n]"
          ELSE "x"] }

\* Faulty variant: the names are not filtered.
list_backups_unfiltered(fs) == DOMAIN fs

list_backups(fs) == {f \in DOMAIN fs : EndsWith(f, BackupSuffix)}

(***************************************************************************)
(* json.dump and json.load as the calls use them.  The texts of the rule   *)
(* sequences and the values of the texts a file can hold are computed      *)
(* once; any other argument is computed on the spot.                       *)
(***************************************************************************)
DumpTable == [r \in RuleSeqs |-> JsonDump(r, 0)]

\* Faulty variant: the first rule is dumped instead of the sequence.
json_dump_first(rules) == JsonDump(rules.kids[1], 0)

json_dump(rules) ==
    IF rules \in DOMAIN DumpTable THEN DumpTable[rules] ELSE JsonDump(rules, 0)

InitialTexts == UNION {{d[f] : f \in DOMAIN d} : d \in InitialDirs}

LoadTable ==
    [text \in InitialTexts
              \cup {DumpTable[r] : r \in RuleSeqs}
              \cup {SubSeq(DumpTable[r], 1, (c * Len(DumpTable[r])) \div (MaxCuts + 1)) :
                        r \in RuleSeqs, c \in 1..MaxCuts}
        |-> JsonLoad(text)]

json_load(text) ==
    IF text \in DOMAIN LoadTable THEN LoadTable[text] ELSE JsonLoad(text)

(***************************************************************************)
(* Log records and the record of a call.                                   *)
(***************************************************************************)
LogRec(level, msg, arg) == [level |-> level, msg |-> msg, arg |-> arg]

\* op: the call made; bucket, mapping: its arguments; outcomes, reply: what
\* the file system and the storage service did; raised:
\* restore_lifecycle_policies ended by raising; puts: the
\* put_bucket_lifecycle_configuration calls made; log: the records of the
\* backup manager's logger; main_log: those of main's logger; again: the
\* call went through (every file written, or the put accepted) and the
\* previous call was the same call and went through in the same way;
\* listing: the value returned by list_backups.
NoCall ==
    [op |-> "none", bucket |-> "", mapping |-> <<>>, outcomes |-> <<>>,
     reply |-> "none", raised |-> FALSE, puts |-> <<>>, log |-> <<>>,
     main_log |-> <<>>, again |-> FALSE, listing |-> {}]

SameCall(c, op, bucket, mapping, outcomes, reply) ==
    /\ \/ op = "export" /\ \A i \in DOMAIN outcomes : outcomes[i].kind = "written"
       \/ op = "restore" /\ reply = "accepted"
    /\ c.op = op
    /\ c.bucket = bucket
    /\ c.mapping = mapping
    /\ c.outcomes = outcomes
    /\ c.reply = reply

(***************************************************************************)
(* export_lifecycle_policies.  outcomes[i] says how the write of the i-th  *)
(* item's file went: "written", "open_failed" (open raised IOError, the    *)
(* file is untouched) or "write_failed" (IOError after the file was opened *)
(* for writing, leaving the first part of the text).                       *)
(***************************************************************************)
Written == [kind |-> "written", cut |-> 0]

WriteOutcomes ==
    {Written, [kind |-> "open_failed", cut |-> 0]}
    \cup {[kind |-> "write_failed", cut |-> c] : c \in 1..MaxCuts}

\* The text left by a write that failed at cut point c.
CutText(text, c) == SubSeq(text, 1, (c * Len(text)) \div (MaxCuts + 1))

ExportLog(st, level, msg, arg) == Append(st.log, LogRec(level, msg, arg))

\* What json.dump wrote before it raised TypeError: the chunks of the text
\* that precede the value it cannot encode.
WrittenBefore(text) ==
    SubSeq(text, 1, (CHOOSE i \in 1..Len(text) :
                        /\ Ch(text, i) = TypeErrorMark
                        /\ \A j \in 1..(i - 1) : Ch(text, j) # TypeErrorMark) - 1)

\* json.dump raises TypeError: "except IOError" does not catch it, the file
\* keeps what was written and the call ends by raising.
ExportTypeError(st, bucket, rules) ==
    [files |-> WriteFile(st.files, BackupFile(bucket), WrittenBefore(JsonDump(rules, 0))),
     log |-> st.log, raised |-> TRUE]

\* The try block of the loop body: the write of one bucket's backup file.
ExportWrite(st, bucket, rules, outcome) ==
    LET backup_file == BackupFile(bucket)
    IN  IF outcome.kind = "open_failed"
          THEN [files |-> st.files,
                log |-> ExportLog(st, "error", "Failed to write backup file", backup_file),
                raised |-> FALSE]
        ELSE IF ~Encodable(rules) THEN ExportTypeError(st, bucket, rules)
        ELSE IF outcome.kind = "written"
          THEN [files |-> WriteFile(st.files, backup_file, json_dump(rules)),
                log |-> ExportLog(st, "info", "Exported lifecycle policy for bucket", bucket),
                raised |-> FALSE]
        ELSE [files |-> WriteFile(st.files, backup_file,
                                  CutText(json_dump(rules), outcome.cut)),
              log |-> ExportLog(st, "error", "Failed to write backup file", backup_file),
              raised |-> FALSE]

\* Faulty variant: no "if not rules" test, an empty sequence is written like any other.
ExportOneNoSkip(st, bucket, rules, outcome) == ExportWrite(st, bucket, rules, outcome)

\* Faulty variant: a bucket without rules loses its backup file.
ExportOneRemoveStale(st, bucket, rules, outcome) ==
    IF ~Truthy(rules)
      THEN [files |-> [f \in DOMAIN st.files \ {BackupFile(bucket)} |-> st.files[f]],
            log |-> ExportLog(st, "info",
                        "No lifecycle configuration to export for bucket", bucket),
            raised |-> FALSE]
      ELSE ExportWrite(st, bucket, rules, outcome)

\* One iteration of the loop body, for item (bucket, rules).
ExportOne(st, bucket, rules, outcome) ==
    IF ~Truthy(rules)
      THEN [files |-> st.files,
            log |-> ExportLog(st, "info",
                        "No lifecycle configuration to export for bucket", bucket),
            raised |-> FALSE]
      ELSE ExportWrite(st, bucket, rules, outcome)

\* Faulty variant: the loop is left after its first item.
ExportLoopOnce(st, mapping, outcomes, i) ==
    IF i > Len(mapping) THEN st
    ELSE ExportOne(st, mapping[i].bucket, mapping[i].rules, outcomes[i])

RECURSIVE ExportLoop(_, _, _, _)
ExportLoop(st, mapping, outcomes, i) ==
    IF st.raised \/ i > Len(mapping) THEN st
    ELSE ExportLoop(ExportOne(st, mapping[i].bucket, mapping[i].rules, outcomes[i]),
                    mapping, outcomes, i + 1)

\* Faulty variant: the export starts from an emptied directory.
export_into_cleared_dir(fs, mapping, outcomes) ==
    ExportLoop([files |-> EmptyDir, log |-> <<>>, raised |-> FALSE], mapping, outcomes, 1)

export_lifecycle_policies(fs, mapping, outcomes) ==
    ExportLoop([files |-> fs, log |-> <<>>, raised |-> FALSE], mapping, outcomes, 1)

\* The outcomes that can be told apart: a skipped item writes nothing.
OutcomesFor(mapping) ==
    {o \in [1..Len(mapping) -> WriteOutcomes] :
        \A i \in 1..Len(mapping) : ~Truthy(mapping[i].rules) => o[i] = Written}

Export ==
    \E mapping \in Mappings : \E outcomes \in OutcomesFor(mapping) :
        LET r == export_lifecycle_policies(files, mapping, outcomes)
        IN  /\ files' = r.files
            /\ call' = [NoCall EXCEPT
                          !.op = "export", !.mapping = mapping,
                          !.outcomes = outcomes, !.log = r.log, !.raised = r.raised,
                          !.again = SameCall(call, "export", "", mapping, outcomes, "none")]
            /\ UNCHANGED <<live, policies, reports, glue>>

(***************************************************************************)
(* restore_lifecycle_policies.  open_error: opening the file raises        *)
(* IOError; put_rejected: the storage service answers the put with a       *)
(* ClientError.  reply is the service's answer to the put: "accepted",     *)
(* "ClientError", or "none" when no put was made.                          *)
(***************************************************************************)
PutCall(bucket, rules) == [Bucket |-> bucket, Rules |-> rules]

RestoreResult(raised, puts, reply, log, lv) ==
    [raised |-> raised, puts |-> puts, reply |-> reply, log |-> log, live |-> lv]

\* Faulty variant: the missing file is passed over in silence.
RestoreMissingSilent(lv, backup_file) == RestoreResult(FALSE, <<>>, "none", <<>>, lv)

\* The backup file does not exist.
RestoreMissing(lv, backup_file) ==
    RestoreResult(FALSE, <<>>, "none",
        <<LogRec("error", "Backup file does not exist", backup_file)>>, lv)

\* open raised IOError.
RestoreReadError(lv, backup_file) ==
    RestoreResult(FALSE, <<>>, "none",
        <<LogRec("error", "Error reading backup file", backup_file)>>, lv)

\* json.load raised json.JSONDecodeError, a ValueError: "except IOError"
\* does not catch it and the call ends by raising.
RestoreCorrupt(lv) == RestoreResult(TRUE, <<>>, "none", <<>>, lv)

\* Faulty variant: the put adds the rules to those the bucket has.
MergeRules(lv, bucket, rules) ==
    [lv EXCEPT ![bucket] = PyList(lv[bucket].kids \o rules.kids)]

\* Faulty variant: the put reaches every bucket.
ReplaceEveryRules(lv, bucket, rules) == [b \in DOMAIN lv |-> rules]

\* An accepted put_bucket_lifecycle_configuration(Bucket, {"Rules": rules}):
\* the bucket's configuration becomes the one sent.
ReplaceRules(lv, bucket, rules) == [lv EXCEPT ![bucket] = rules]

\* Faulty variant: a rejected put is tried once more.
RestorePutRetry(lv, bucket_name, rules, put_rejected) ==
    IF put_rejected
      THEN RestoreResult(FALSE,
               <<PutCall(bucket_name, rules), PutCall(bucket_name, rules)>>, "ClientError",
               <<LogRec("error", "Failed to restore lifecycle policy for bucket",
                        bucket_name)>>, lv)
      ELSE RestoreResult(FALSE, <<PutCall(bucket_name, rules)>>, "accepted",
               <<LogRec("info", "Restored lifecycle policy for bucket", bucket_name)>>,
               ReplaceRules(lv, bucket_name, rules))

\* The put and its except clause.
RestorePut(lv, bucket_name, rules, put_rejected) ==
    IF put_rejected
      THEN RestoreResult(FALSE, <<PutCall(bucket_name, rules)>>, "ClientError",
               <<LogRec("error", "Failed to restore lifecycle policy for bucket",
                        bucket_name)>>, lv)
      ELSE RestoreResult(FALSE, <<PutCall(bucket_name, rules)>>, "accepted",
               <<LogRec("info", "Restored lifecycle policy for bucket", bucket_name)>>,
               ReplaceRules(lv, bucket_name, rules))

restore_lifecycle_policies(fs, lv, bucket_name, open_error, put_rejected) ==
    LET backup_file == BackupFile(bucket_name)
        loaded == json_load(fs[backup_file])
    IN  IF ~Exists(fs, backup_file) THEN RestoreMissing(lv, backup_file)
        ELSE IF open_error THEN RestoreReadError(lv, backup_file)
        ELSE IF ~loaded.ok THEN RestoreCorrupt(lv)
        ELSE RestorePut(lv, bucket_name, loaded.v, put_rejected)

(***************************************************************************)
(* main, run with --restore [--bucket B]: the only caller of               *)
(* restore_lifecycle_policies.  bucket = "" stands for a run without       *)
(* --bucket.  An exception of the restore is caught and logged by main.    *)
(***************************************************************************)
MainPreamble(bucket) ==
    <<LogRec("info", "Starting the S3 bucket lifecycle manager script.", ""),
      LogRec("info", "Process Glue logs flag is set to", "False"),
      LogRec("info", "Restore flag is set to", "True"),
      LogRec("info", "Bucket to restore is set to", bucket)>>

main_restore_log(bucket, raised) ==
    IF bucket = ""
      THEN Append(MainPreamble(bucket),
               LogRec("error", "Bucket name is required for restoring lifecycle policies.", ""))
    ELSE IF raised
      THEN MainPreamble(bucket)
           \o <<LogRec("info", "Restoring lifecycle policies for bucket", bucket),
                LogRec("error", "An unexpected error occurred while restoring", "")>>
    ELSE MainPreamble(bucket)
         \o <<LogRec("info", "Restoring lifecycle policies for bucket", bucket),
              LogRec("info", "Successfully restored lifecycle policies for bucket", bucket)>>

\* Faulty variant: no test of args.bucket, the restore is called with the
\* empty name.
MainRestoreEmptyName ==
    LET r == restore_lifecycle_policies(files, live, "", FALSE, FALSE)
    IN  /\ live' = r.live
        /\ call' = [NoCall EXCEPT
                      !.op = "restore", !.reply = r.reply, !.raised = r.raised,
                      !.puts = r.puts, !.log = r.log,
                      !.main_log = MainPreamble("")
                           \o <<LogRec("info", "Restoring lifecycle policies for bucket", ""),
                                LogRec("info",
                                    "Successfully restored lifecycle policies for bucket", "")>>,
                      !.again = SameCall(call, "restore", "", <<>>, <<>>, r.reply)]
        /\ UNCHANGED <<files, policies, reports, glue>>

MainRestoreNoBucket ==
    /\ call' = [NoCall EXCEPT
                  !.op = "restore", !.main_log = main_restore_log("", FALSE),
                  !.again = SameCall(call, "restore", "", <<>>, <<>>, "none")]
    /\ UNCHANGED <<files, live, policies, reports, glue>>

MainRestore ==
    \E b \in Buckets, open_error \in BOOLEAN, put_rejected \in BOOLEAN :
        LET r == restore_lifecycle_policies(files, live, b, open_error, put_rejected)
        IN  /\ live' = r.live
            /\ call' = [NoCall EXCEPT
                          !.op = "restore", !.bucket = b, !.reply = r.reply,
                          !.raised = r.raised, !.puts = r.puts, !.log = r.log,
                          !.main_log = main_restore_log(b, r.raised),
                          !.again = SameCall(call, "restore", b, <<>>, <<>>, r.reply)]
            /\ UNCHANGED <<files, policies, reports, glue>>

\* list_backups as a call: the directory is read, nothing is written.
ListBackups ==
    /\ call' = [NoCall EXCEPT !.op = "list_backups", !.listing = list_backups(files)]
    /\ UNCHANGED <<files, live, policies, reports, glue>>

Init ==
    /\ files \in InitialDirs
    /\ live \in InitialLive
    /\ call = NoCall
    /\ policies = <<>>
    /\ reports = EmptyDir
    /\ glue = NoGlue

Next == Export \/ MainRestore \/ MainRestoreNoBucket \/ ListBackups

Spec == Init /\ [][Next]_vars

\* The same program started on an empty backup directory.
InitFresh == Init /\ files = EmptyDir

SpecFresh == InitFresh /\ [][Next]_vars

\* The same program on a file system whose writes all succeed.
ExportWritten ==
    /\ Export
    /\ \A i \in DOMAIN call'.outcomes : call'.outcomes[i].kind = "written"

NextWritten == ExportWritten \/ MainRestore \/ MainRestoreNoBucket \/ ListBackups

SpecWritten == InitFresh /\ [][NextWritten]_vars

(***************************************************************************)
(* The flat policy records.  A record is a Python dict with string keys,   *)
(* here a function from its keys to Python values.  The operators below    *)
(* are dict.get, d[key], "x or y", str() as an f-string applies it, and    *)
(* str.join.                                                               *)
(***************************************************************************)
PyNone == [t |-> "none", s |-> "", n |-> 0, kids |-> <<>>]

EmptyDict == PyDict(<<>>)

NA == PyStr("N/A")

HasKey(d, key) == \E i \in DOMAIN d.kids : d.kids[i].s = key

\* d[key], for a key the dict has.
Item(d, key) == d.kids[CHOOSE i \in DOMAIN d.kids : d.kids[i].s = key].kids[1]

\* d.get(key, default)
Get(d, key, default) == IF HasKey(d, key) THEN Item(d, key) ELSE default

\* v or w
Or(v, w) == IF Truthy(v) THEN v ELSE w

\* The text an f-string puts for {v}.
Str(v) == IF v.t = "int" THEN ToString(v.n) ELSE v.s

RECURSIVE JoinFrom(_, _, _)
JoinFrom(parts, sep, i) ==
    IF i > Len(parts) THEN ""
    ELSE IF i = Len(parts) THEN parts[i]
    ELSE parts[i] \o sep \o JoinFrom(parts, sep, i + 1)

\* sep.join(parts)
Join(parts, sep) == JoinFrom(parts, sep, 1)

\* [f"{t.get(days_key, 'N/A')} days to {t.get('StorageClass', 'N/A')}" for t in entries]
TransitionTexts(entries, days_key) ==
    [i \in DOMAIN entries.kids |->
        Str(Get(entries.kids[i], days_key, NA)) \o " days to "
            \o Str(Get(entries.kids[i], "StorageClass", NA))]

(***************************************************************************)
(* LifecyclePolicy.default_policy and LifecyclePolicy.from_rule.  The      *)
(* operators named after from_rule's local variables are the values these  *)
(* variables get.  A call answers [raised, record]: raised says that it    *)
(* ended with a KeyError, and then there is no record.                     *)
(***************************************************************************)
NoRecord == [k \in {} |-> NA]

default_policy ==
    [Status |-> PyStr("No Rules"), ID |-> NA, Prefix |-> NA, Transitions |-> NA,
     ExpirationDays |-> NA, NoncurrentVersionTransitions |-> NA,
     NoncurrentVersionExpirationDays |-> NA,
     AbortIncompleteMultipartUploadDays |-> NA]

\* Faulty variant: without the 'or "N/A"'.
transitions_joined(rule) ==
    PyStr(Join(TransitionTexts(Get(rule, "Transitions", NoRules), "Days"), ", "))

transitions(rule) ==
    Or(PyStr(Join(TransitionTexts(Get(rule, "Transitions", NoRules), "Days"), ", ")), NA)

expiration(rule) == Get(Get(rule, "Expiration", EmptyDict), "Days", NA)

noncurrent_transitions(rule) ==
    Or(PyStr(Join(TransitionTexts(Get(rule, "NoncurrentVersionTransitions", NoRules),
                                  "NoncurrentDays"), ", ")), NA)

\* Faulty variant: the key "Days" is read.
noncurrent_expiration_days(rule) ==
    Get(Get(rule, "NoncurrentVersionExpiration", EmptyDict), "Days", NA)

noncurrent_expiration(rule) ==
    Get(Get(rule, "NoncurrentVersionExpiration", EmptyDict), "NoncurrentDays", NA)

\* Faulty variant: the key "Days" is read.
abort_multipart_days(rule) ==
    Get(Get(rule, "AbortIncompleteMultipartUpload", EmptyDict), "Days", NA)

abort_multipart(rule) ==
    Get(Get(rule, "AbortIncompleteMultipartUpload", EmptyDict), "DaysAfterInitiation", NA)

tag_filter(rule) == Get(Get(rule, "Filter", EmptyDict), "Tag", PyNone)

\* tag_filter['Key'] or tag_filter['Value'] raises KeyError.
TagRaises(rule) ==
    /\ Truthy(tag_filter(rule))
    /\ ~HasKey(tag_filter(rule), "Key") \/ ~HasKey(tag_filter(rule), "Value")

\* filter_prefix after the "if tag_filter" statement.
PrefixWithTag(rule) ==
    LET prefix == Get(Get(rule, "Filter", EmptyDict), "Prefix", PyStr("No Prefix"))
        tag == tag_filter(rule)
    IN  IF Truthy(tag)
          THEN PyStr(prefix.s \o ", Tag: " \o Str(Item(tag, "Key")) \o "="
                         \o Str(Item(tag, "Value")))
          ELSE prefix

\* filter_prefix as the record gets it.
filter_prefix(rule) == Or(PrefixWithTag(rule), PyStr("No Prefix"))

\* Faulty variant: a field whose value is "N/A" is left out of the record.
from_rule_sparse(bucket_name, rule) ==
    LET full == [Bucket |-> PyStr(bucket_name),
                 Status |-> Get(rule, "Status", PyStr("Unknown")),
                 ID |-> Get(rule, "ID", PyStr("No ID")),
                 Prefix |-> filter_prefix(rule),
                 Transitions |-> transitions(rule),
                 ExpirationDays |-> expiration(rule),
                 NoncurrentVersionTransitions |-> noncurrent_transitions(rule),
                 NoncurrentVersionExpirationDays |-> noncurrent_expiration(rule),
                 AbortIncompleteMultipartUploadDays |-> abort_multipart(rule)]
    IN  IF TagRaises(rule) THEN [raised |-> TRUE, record |-> NoRecord]
        ELSE [raised |-> FALSE,
              record |-> [k \in {j \in DOMAIN full : full[j] # NA} |-> full[k]]]

from_rule(bucket_name, rule) ==
    IF TagRaises(rule) THEN [raised |-> TRUE, record |-> NoRecord]
    ELSE [raised |-> FALSE,
          record |-> [Bucket |-> PyStr(bucket_name),
                      Status |-> Get(rule, "Status", PyStr("Unknown")),
                      ID |-> Get(rule, "ID", PyStr("No ID")),
                      Prefix |-> filter_prefix(rule),
                      Transitions |-> transitions(rule),
                      ExpirationDays |-> expiration(rule),
                      NoncurrentVersionTransitions |-> noncurrent_transitions(rule),
                      NoncurrentVersionExpirationDays |-> noncurrent_expiration(rule),
                      AbortIncompleteMultipartUploadDays |-> abort_multipart(rule)]]

(***************************************************************************)
(* S3LifecycleManager: get_lifecycle_policy, analyze_rule and              *)
(* process_buckets.  outcome says how get_bucket_lifecycle_configuration   *)
(* answered: "ok", or the error code of the ClientError it raised.         *)
(***************************************************************************)
\* Faulty variant: no warning for an error code other than
\* NoSuchLifecycleConfiguration.
get_lifecycle_policy_unlogged(lv, bucket_name, outcome) ==
    IF outcome = "ok" THEN [rules |-> lv[bucket_name], log |-> <<>>]
    ELSE [rules |-> NoRules, log |-> <<>>]

get_lifecycle_policy(lv, bucket_name, outcome) ==
    IF outcome = "ok" THEN [rules |-> lv[bucket_name], log |-> <<>>]
    ELSE IF outcome = "NoSuchLifecycleConfiguration" THEN [rules |-> NoRules, log |-> <<>>]
    ELSE [rules |-> NoRules,
          log |-> <<LogRec("warning", "Unable to get the lifecycle policy for bucket",
                           bucket_name)>>]

\* The answers the service can give for a bucket: one without a lifecycle
\* configuration answers NoSuchLifecycleConfiguration.
FetchOutcomes(lv, bucket_name) ==
    IF Truthy(lv[bucket_name]) THEN {"ok", "AccessDenied"}
    ELSE {"NoSuchLifecycleConfiguration", "AccessDenied"}

analyze_rule(rule) ==
    LET analyzed_transitions ==
            PyStr(Join(TransitionTexts(Get(rule, "Transitions", NoRules), "Days"), ", "))
        analyzed_noncurrent_transitions ==
            PyStr(Join(TransitionTexts(Get(rule, "NoncurrentVersionTransitions", NoRules),
                                       "NoncurrentDays"), ", "))
    IN  IF TagRaises(rule) THEN [raised |-> TRUE, record |-> NoRecord]
        ELSE [raised |-> FALSE,
              record |-> [Status |-> Get(rule, "Status", PyStr("Unknown")),
                          ID |-> Get(rule, "ID", PyStr("No ID")),
                          Prefix |-> PrefixWithTag(rule),
                          Transitions |-> analyzed_transitions,
                          ExpirationDays |->
                              Get(Get(rule, "Expiration", EmptyDict), "Days", NA),
                          NoncurrentVersionTransitions |-> analyzed_noncurrent_transitions,
                          NoncurrentVersionExpirationDays |->
                              Get(Get(rule, "NoncurrentVersionExpiration", EmptyDict),
                                  "NoncurrentDays", NA),
                          AbortIncompleteMultipartUploadDays |->
                              Get(Get(rule, "AbortIncompleteMultipartUpload", EmptyDict),
                                  "DaysAfterInitiation", NA)]]

\* analyzed_rule["Bucket"] = bucket_name
WithBucket(record, bucket_name) ==
    [k \in DOMAIN record \cup {"Bucket"} |->
        IF k = "Bucket" THEN PyStr(bucket_name) ELSE record[k]]

\* Faulty variant: the record of a bucket without rules has the defaults of a
\* rule without fields.
unknown_rule_policy(bucket_name) ==
    [Bucket |-> PyStr(bucket_name), Status |-> PyStr("Unknown"), ID |-> PyStr("No ID"),
     Prefix |-> PyStr("No Prefix"), Transitions |-> NA, ExpirationDays |-> NA,
     NoncurrentVersionTransitions |-> NA, NoncurrentVersionExpirationDays |-> NA,
     AbortIncompleteMultipartUploadDays |-> NA]

\* The record process_buckets appends for a bucket without rules.
no_rules_policy(bucket_name) ==
    [Bucket |-> PyStr(bucket_name), Status |-> PyStr("No Rules"), ID |-> NA,
     Prefix |-> NA, Transitions |-> NA, ExpirationDays |-> NA,
     NoncurrentVersionTransitions |-> NA, NoncurrentVersionExpirationDays |-> NA,
     AbortIncompleteMultipartUploadDays |-> NA]

\* Faulty variant: the loop over the rules is left after the first rule.
AnalyzeFirst(st, bucket_name, rules, j) ==
    LET analyzed_rule == analyze_rule(rules.kids[j])
    IN  IF analyzed_rule.raised THEN [st EXCEPT !.raised = TRUE]
        ELSE [st EXCEPT !.policies =
                 Append(@, WithBucket(analyzed_rule.record, bucket_name))]

\* "for rule in rules": a KeyError of analyze_rule ends the loop, and the call.
RECURSIVE AnalyzeLoop(_, _, _, _)
AnalyzeLoop(st, bucket_name, rules, j) ==
    IF j > Len(rules.kids) THEN st
    ELSE LET analyzed_rule == analyze_rule(rules.kids[j])
         IN  IF analyzed_rule.raised THEN [st EXCEPT !.raised = TRUE]
             ELSE AnalyzeLoop(
                      [st EXCEPT !.policies =
                          Append(@, WithBucket(analyzed_rule.record, bucket_name))],
                      bucket_name, rules, j + 1)

\* One iteration of "for bucket_name in bucket_names".
ProcessOne(st, lv, bucket_name, outcome) ==
    LET got == get_lifecycle_policy(lv, bucket_name, outcome)
        fetched == [st EXCEPT
                      !.log = Append(@, LogRec("info", "Processing bucket", bucket_name))
                                  \o got.log,
                      !.fetched = Append(@, got.rules)]
    IN  IF ~Truthy(got.rules)
          THEN [fetched EXCEPT !.policies = Append(@, no_rules_policy(bucket_name))]
          ELSE AnalyzeLoop(fetched, bucket_name, got.rules, 1)

RECURSIVE ProcessLoop(_, _, _, _, _)
ProcessLoop(st, lv, bucket_names, outcomes, i) ==
    IF st.raised THEN st
    ELSE IF i > Len(bucket_names)
      THEN [st EXCEPT !.log = Append(@,
               LogRec("info", "Finished processing buckets for lifecycle policies.", ""))]
    ELSE ProcessLoop(ProcessOne(st, lv, bucket_names[i], outcomes[i]),
                     lv, bucket_names, outcomes, i + 1)

\* fetched: what get_lifecycle_policy returned, bucket by bucket.
process_buckets(pol, lv, bucket_names, outcomes) ==
    ProcessLoop([policies |-> pol, raised |-> FALSE, fetched |-> <<>>,
                 log |-> <<LogRec("info",
                             "Starting to process buckets for lifecycle policies.", "")>>],
                lv, bucket_names, outcomes, 1)

(***************************************************************************)
(* The rules given to the normalizer.  A rule is put together from one     *)
(* choice per field; a choice is the field's item, or no item.             *)
(***************************************************************************)
Field(key, value) == <<PyItem(key, value)>>

Absent == <<>>

Tag(items) == PyItem("Tag", PyDict(items))

FullTag == Tag(<<PyItem("Key", PyStr("Environment")), PyItem("Value", PyStr("Production"))>>)

Entry(days_key, days, storage_class) ==
    PyDict(<<PyItem(days_key, PyInt(days)), PyItem("StorageClass", PyStr(storage_class))>>)

StatusChoices == {Absent, Field("Status", PyStr("Enabled"))}

IdChoices == {Absent, Field("ID", PyStr("ExampleRule"))}

FilterChoices ==
    {Absent,
     Field("Filter", EmptyDict),
     Field("Filter", PyDict(<<PyItem("Prefix", PyStr(""))>>)),
     Field("Filter", PyDict(<<PyItem("Prefix", PyStr("documents/"))>>)),
     Field("Filter", PyDict(<<FullTag>>)),
     Field("Filter", PyDict(<<PyItem("Prefix", PyStr("")), FullTag>>)),
     Field("Filter", PyDict(<<PyItem("Prefix", PyStr("documents/")), FullTag>>)),
     Field("Filter", PyDict(<<Tag(<<PyItem("Key", PyStr("Environment"))>>)>>)),
     Field("Filter", PyDict(<<PyItem("Prefix", PyStr("documents/")),
                              Tag(<<PyItem("Value", PyStr("Production"))>>)>>))}

TransitionsChoices ==
    {Absent,
     Field("Transitions", NoRules),
     Field("Transitions", PyList(<<Entry("Days", 30, "GLACIER")>>)),
     Field("Transitions", PyList(<<Entry("Days", 90, "STANDARD_IA"),
                                   Entry("Days", 30, "GLACIER")>>)),
     Field("Transitions", PyList(<<PyDict(<<PyItem("Days", PyInt(30))>>),
                                   PyDict(<<PyItem("StorageClass", PyStr("GLACIER"))>>)>>))}

ExpirationChoices ==
    {Absent,
     Field("Expiration", EmptyDict),
     Field("Expiration", PyDict(<<PyItem("Days", PyInt(365))>>))}

NoncurrentTransitionsChoices ==
    {Absent,
     Field("NoncurrentVersionTransitions", NoRules),
     Field("NoncurrentVersionTransitions",
           PyList(<<Entry("NoncurrentDays", 30, "GLACIER")>>)),
     Field("NoncurrentVersionTransitions",
           PyList(<<PyDict(<<PyItem("StorageClass", PyStr("GLACIER"))>>),
                    PyDict(<<PyItem("NoncurrentDays", PyInt(60))>>)>>))}

NoncurrentExpirationChoices ==
    {Absent,
     Field("NoncurrentVersionExpiration", EmptyDict),
     Field("NoncurrentVersionExpiration", PyDict(<<PyItem("NoncurrentDays", PyInt(365))>>)),
     Field("NoncurrentVersionExpiration", PyDict(<<PyItem("Days", PyInt(180))>>))}

AbortChoices ==
    {Absent,
     Field("AbortIncompleteMultipartUpload", EmptyDict),
     Field("AbortIncompleteMultipartUpload",
           PyDict(<<PyItem("DaysAfterInitiation", PyInt(7))>>))}

Choices ==
    <<StatusChoices, IdChoices, FilterChoices, TransitionsChoices, ExpirationChoices,
      NoncurrentTransitionsChoices, NoncurrentExpirationChoices, AbortChoices>>

\* A rule with every field, as the service returns it.
FullChoice ==
    <<Field("Status", PyStr("Enabled")),
      Field("ID", PyStr("ExampleRule")),
      Field("Filter", PyDict(<<PyItem("Prefix", PyStr("documents/"))>>)),
      Field("Transitions", PyList(<<Entry("Days", 30, "GLACIER")>>)),
      Field("Expiration", PyDict(<<PyItem("Days", PyInt(365))>>)),
      Field("NoncurrentVersionTransitions",
            PyList(<<Entry("NoncurrentDays", 30, "GLACIER")>>)),
      Field("NoncurrentVersionExpiration", PyDict(<<PyItem("NoncurrentDays", PyInt(365))>>)),
      Field("AbortIncompleteMultipartUpload",
            PyDict(<<PyItem("DaysAfterInitiation", PyInt(7))>>))>>

MakeRule(c) == PyDict(c[1] \o c[2] \o c[3] \o c[4] \o c[5] \o c[6] \o c[7] \o c[8])

FullRule == MakeRule(FullChoice)

\* A rule filtered by a tag alone.
TagRule ==
    PyDict(<<PyItem("Status", PyStr("Enabled")),
             PyItem("ID", PyStr("ExampleRule")),
             PyItem("Filter", PyDict(<<FullTag>>)),
             PyItem("Transitions", PyList(<<Entry("Days", 30, "GLACIER")>>)),
             PyItem("Expiration", PyDict(<<PyItem("Days", PyInt(365))>>))>>)

\* The rules from_rule is called with: one field takes each of its choices
\* while the other fields are all absent, or all as in FullRule.
NormRules ==
    {MakeRule([j \in 1..8 |->
                  IF j = k THEN c ELSE IF full THEN FullChoice[j] ELSE Absent]) :
        <<k, c>> \in UNION {{<<f, d>> : d \in Choices[f]} : f \in 1..8},
        full \in BOOLEAN}

(***************************************************************************)
(* The report: the calls of the normalizer and of process_buckets.         *)
(***************************************************************************)
\* Most records self.policies is let to hold.
MaxPolicies == 2

\* Most bucket names given to one process_buckets call.
MaxNames == 2

BucketLists == UNION {[1..n -> Buckets] : n \in 0..MaxNames}

\* What the buckets hold when the report is made.
ReportLive ==
    InitialLive
    \cup {[b \in Buckets |-> IF b = "b1" THEN PyList(<<TagRule>>)
                                       ELSE PyList(<<FullRule, Rule1>>)]}

FromRule ==
    \E bucket_name \in Buckets, rule \in NormRules :
        LET r == from_rule(bucket_name, rule)
        IN  /\ call' = [op |-> "from_rule", bucket |-> bucket_name, rule |-> rule,
                        raised |-> r.raised, record |-> r.record]
            /\ UNCHANGED <<files, live, policies, reports, glue>>

DefaultPolicy ==
    /\ call' = [op |-> "default_policy", record |-> default_policy]
    /\ UNCHANGED <<files, live, policies, reports, glue>>

\* added: the records the call appended to self.policies.
ProcessBuckets ==
    \E bucket_names \in BucketLists :
        \E outcomes \in {o \in [DOMAIN bucket_names ->
                                   {"ok", "NoSuchLifecycleConfiguration", "AccessDenied"}] :
                            \A i \in DOMAIN bucket_names :
                                o[i] \in FetchOutcomes(live, bucket_names[i])} :
            LET r == process_buckets(policies, live, bucket_names, outcomes)
            IN  /\ Len(r.policies) <= MaxPolicies
                /\ policies' = r.policies
                /\ call' = [op |-> "process_buckets", bucket_names |-> bucket_names,
                            outcomes |-> outcomes, fetched |-> r.fetched,
                            raised |-> r.raised, log |-> r.log,
                            added |-> SubSeq(r.policies, Len(policies) + 1, Len(r.policies))]
                /\ UNCHANGED <<files, live, reports, glue>>

GetLifecyclePolicy ==
    \E bucket_name \in Buckets : \E outcome \in FetchOutcomes(live, bucket_name) :
        LET r == get_lifecycle_policy(live, bucket_name, outcome)
        IN  /\ call' = [op |-> "get_lifecycle_policy", bucket |-> bucket_name,
                        outcome |-> outcome, rules |-> r.rules, log |-> r.log]
            /\ UNCHANGED <<files, live, policies, reports, glue>>

InitReport ==
    /\ files = EmptyDir
    /\ live \in ReportLive
    /\ call = NoCall
    /\ policies = <<>>
    /\ reports = EmptyDir
    /\ glue = NoGlue

NextReport == FromRule \/ DefaultPolicy \/ ProcessBuckets

SpecReport == InitReport /\ [][NextReport]_vars

\* The normalizer alone, as a caller of LifecyclePolicy uses it.
NextNormalizer == FromRule \/ DefaultPolicy

SpecNormalizer == InitReport /\ [][NextNormalizer]_vars

(***************************************************************************)
(* The csv module as the report writers use it: the excel dialect, a field *)
(* quoted when it holds a comma, a quote or a line end, lines ended by     *)
(* "\r\n".                                                                 *)
(***************************************************************************)
NeedsQuote(text) == \E i \in 1..Len(text) : Ch(text, i) \in {",", "\"", "\r", "\n"}

RECURSIVE DoubleQuotes(_, _)
DoubleQuotes(text, i) ==
    IF i > Len(text) THEN ""
    ELSE (IF Ch(text, i) = "\"" THEN "\"\"" ELSE Ch(text, i)) \o DoubleQuotes(text, i + 1)

CsvField(text) ==
    IF NeedsQuote(text) THEN "\"" \o DoubleQuotes(text, 1) \o "\"" ELSE text

\* writer.writerow(fields); a row of one empty field is written as "".
CsvRow(fields) ==
    IF fields = <<"">> THEN "\"\"\r\n"
    ELSE Join([i \in DOMAIN fields |-> CsvField(fields[i])], ",") \o "\r\n"

\* The fields DictWriter takes from a row dict: str() of the value of each
\* field name, "" for a name the dict does not have.
DictRow(record, fieldnames) ==
    [j \in DOMAIN fieldnames |->
        IF fieldnames[j] \in DOMAIN record THEN Str(record[fieldnames[j]]) ELSE ""]

RECURSIVE CsvRows(_, _)
CsvRows(rows, i) ==
    IF i > Len(rows) THEN "" ELSE CsvRow(rows[i]) \o CsvRows(rows, i + 1)

(***************************************************************************)
(* save_policies_csv.  outcome says how the write of the report went, as   *)
(* for a backup file.                                                      *)
(***************************************************************************)
REPORT_LIFECYCLE_BUCKETS_CSV == "REPORT_lifecycle_buckets.csv"

fieldnames ==
    <<"Bucket", "Status", "ID", "Prefix", "Transitions", "ExpirationDays",
      "NoncurrentVersionTransitions", "NoncurrentVersionExpirationDays",
      "AbortIncompleteMultipartUploadDays">>

\* writeheader() and one writerow(policy) per policy.
PoliciesText(pol) ==
    CsvRow(fieldnames) \o CsvRows([i \in DOMAIN pol |-> DictRow(pol[i], fieldnames)], 1)

\* The part of save_policies_csv after the test of self.policies.
SavePoliciesTry(pol, reps, filename, outcome) ==
    LET saving == LogRec("info", "Saving lifecycle policies to CSV file", filename)
        failed == LogRec("error", "Error saving policies to file", filename)
    IN  IF outcome.kind = "written"
          THEN [reports |-> WriteFile(reps, filename, PoliciesText(pol)),
                log |-> <<saving, LogRec("info", "Policies successfully saved to", filename)>>]
        ELSE IF outcome.kind = "open_failed"
          THEN [reports |-> reps, log |-> <<saving, failed>>]
        ELSE [reports |-> WriteFile(reps, filename, CutText(PoliciesText(pol), outcome.cut)),
              log |-> <<saving, failed>>]

\* Faulty variant: no test of self.policies, the header is written alone.
save_policies_csv_always(pol, reps, filename, outcome) ==
    SavePoliciesTry(pol, reps, filename, outcome)

save_policies_csv(pol, reps, filename, outcome) ==
    IF pol = <<>>
      THEN [reports |-> reps, log |-> <<LogRec("warning", "No policies to save.", "")>>]
      ELSE SavePoliciesTry(pol, reps, filename, outcome)

\* self.policies is read, and left as it is.
SavePoliciesCsv ==
    \E outcome \in IF policies = <<>> THEN {Written} ELSE WriteOutcomes :
        LET r == save_policies_csv(policies, reports, REPORT_LIFECYCLE_BUCKETS_CSV, outcome)
        IN  /\ reports' = r.reports
            /\ call' = [op |-> "save_policies_csv",
                        filename |-> REPORT_LIFECYCLE_BUCKETS_CSV,
                        outcome |-> outcome, log |-> r.log]
            /\ UNCHANGED <<files, live, policies, glue>>

\* The manager alone: fetch, process, save.
NextManager == GetLifecyclePolicy \/ ProcessBuckets \/ SavePoliciesCsv

SpecManager == InitReport /\ [][NextManager]_vars

(***************************************************************************)
(* GlueLogPathsManager: the scan of the Glue jobs.  glue holds the         *)
(* manager's job_details and buckets.  A job is the dict get_jobs gives.   *)
(***************************************************************************)
PyBool(b) == [t |-> "bool", s |-> IF b THEN "True" ELSE "False",
              n |-> IF b THEN 1 ELSE 0, kids |-> <<>>]

DEFAULT_TEMP_PATH == PyStr("N/A")

DEFAULT_FALSE == PyStr("false")

\* text.split(sep), for a separator of one character.
Split(text, sep) ==
    LET cuts == {i \in 1..Len(text) : Ch(text, i) = sep}
        n    == Cardinality(cuts)
        cut(k) == CHOOSE x \in cuts : Cardinality({y \in cuts : y < x}) = k - 1
        from(k) == IF k = 1 THEN 1 ELSE cut(k - 1) + 1
        to(k)   == IF k = n + 1 THEN Len(text) ELSE cut(k) - 1
    IN  [k \in 1..(n + 1) |-> SubSeq(text, from(k), to(k))]

\* The job of the repository's test of process_glue_jobs.
Job1 ==
    PyDict(<<PyItem("Name", PyStr("job1")),
             PyItem("Command",
                 PyDict(<<PyItem("ScriptLocation", PyStr("s3://bucket1/scripts/script1.py"))>>)),
             PyItem("DefaultArguments",
                 PyDict(<<PyItem("--enable-continuous-cloudwatch-log", PyStr("true")),
                          PyItem("--TempDir", PyStr("s3://temp_path1")),
                          PyItem("--enable-spark-ui", PyStr("true")),
                          PyItem("--spark-event-logs-path", PyStr("s3://spark_ui_path1"))>>))>>)

\* A job without default arguments.
Job2 ==
    PyDict(<<PyItem("Name", PyStr("job2")),
             PyItem("Command",
                 PyDict(<<PyItem("ScriptLocation", PyStr("s3://bucket2/etl.py"))>>))>>)

\* A second job whose script is in bucket1.
Job3 ==
    PyDict(<<PyItem("Name", PyStr("job3")),
             PyItem("Command",
                 PyDict(<<PyItem("ScriptLocation", PyStr("s3://bucket1/scripts/script3.py"))>>)),
             PyItem("DefaultArguments",
                 PyDict(<<PyItem("--TempDir", PyStr("s3://tmp,dir"))>>))>>)

\* A job with its name alone, as the repository's test of list_glue_jobs
\* lists them.
Job4 == PyDict(<<PyItem("Name", PyStr("job4"))>>)

Jobs == {Job1, Job2, Job3, Job4}

MaxJobs == 2

MaxJobDetails == 2

JobLists == UNION {[1..n -> Jobs] : n \in 0..MaxJobs}

\* list_glue_jobs: the jobs of the reply, or none when get_jobs raises
\* ClientError.
list_glue_jobs(jobs, client_error) ==
    IF client_error
      THEN [jobs |-> <<>>, log |-> <<LogRec("error", "Error listing Glue jobs", "")>>]
      ELSE [jobs |-> jobs, log |-> <<LogRec("info", "Found Glue jobs", ToString(Len(jobs)))>>]

\* The body of the loop of process_glue_jobs for one job.  st.raised: an
\* IndexError left the loop at an earlier job, or at this one.
GlueOne(st, job) ==
    LET job_name == Item(job, "Name")
        parts == Split(Get(Get(job, "Command", EmptyDict), "ScriptLocation", PyStr("")).s, "/")
        default_arguments == Get(job, "DefaultArguments", EmptyDict)
        continuous_log ==
            Get(default_arguments, "--enable-continuous-cloudwatch-log", DEFAULT_FALSE)
               = PyStr("true")
        temp_path == Get(default_arguments, "--TempDir", DEFAULT_TEMP_PATH)
        spark_ui_enabled ==
            Get(default_arguments, "--enable-spark-ui", DEFAULT_FALSE) = PyStr("true")
        spark_ui_path == Get(default_arguments, "--spark-event-logs-path", DEFAULT_TEMP_PATH)
        processing == Append(st.log, LogRec("info", "Processing job", job_name.s))
    IN  IF st.raised THEN st
        ELSE IF Len(parts) < 3
          THEN [st EXCEPT !.raised = TRUE, !.log = processing]
        ELSE [job_details |->
                  Append(st.job_details,
                      [JobName |-> job_name,
                       BucketName |-> PyStr(parts[3]),
                       ContinuousLoggingEnabled |-> PyBool(continuous_log),
                       TemporaryPath |-> temp_path,
                       SparkUIEnabled |-> PyBool(spark_ui_enabled),
                       SparkUILogsPath |-> spark_ui_path]),
              buckets |-> st.buckets \cup {parts[3]},
              raised |-> FALSE,
              log |-> Append(processing, LogRec("info", "Job", job_name.s))]

RECURSIVE GlueLoop(_, _, _)
GlueLoop(st, jobs, i) ==
    IF i > Len(jobs) THEN st
    ELSE GlueLoop(GlueOne(st, jobs[i]), jobs, i + 1)

process_glue_jobs(g, jobs, client_error) ==
    LET listed == list_glue_jobs(jobs, client_error)
        st == GlueLoop([job_details |-> g.job_details, buckets |-> g.buckets,
                        raised |-> FALSE,
                        log |-> <<LogRec("info",
                                     "Starting to process Glue jobs for log paths.", "")>>
                                \o listed.log],
                       listed.jobs, 1)
    IN  IF st.raised THEN st
        ELSE [st EXCEPT !.log = Append(st.log,
                  LogRec("info", "Finished processing Glue jobs for log paths.", ""))]

REPORT_GLUE_JOBS_REPORT_CSV == "REPORT_glue_jobs_report.csv"

REPORT_GLUE_JOBS_BUCKETS_REPORT_CSV == "REPORT_glue_jobs_buckets_report.csv"

glue_fieldnames ==
    <<"JobName", "BucketName", "ContinuousLoggingEnabled", "TemporaryPath",
      "SparkUIEnabled", "SparkUILogsPath">>

\* The text of writeheader and writerows(self.job_details).
JobDetailsText(details) ==
    CsvRow(glue_fieldnames)
    \o CsvRows([i \in DOMAIN details |-> DictRow(details[i], glue_fieldnames)], 1)

\* The text of the header row and one row per bucket, in the order the set
\* gives its elements.
BucketsText(order) ==
    CsvRow(<<"BucketName">>) \o CsvRows([i \in DOMAIN order |-> <<order[i]>>], 1)

\* The try block of the two save methods: text is what a full write leaves.
GlueSaveTry(reps, filename, text, outcome, saving, saved, failed) ==
    IF outcome.kind = "written"
      THEN [reports |-> WriteFile(reps, filename, text),
            log |-> <<LogRec("info", saving, filename), LogRec("info", saved, filename)>>]
    ELSE IF outcome.kind = "open_failed"
      THEN [reports |-> reps,
            log |-> <<LogRec("info", saving, filename), LogRec("error", failed, filename)>>]
    ELSE [reports |-> WriteFile(reps, filename, CutText(text, outcome.cut)),
          log |-> <<LogRec("info", saving, filename), LogRec("error", failed, filename)>>]

save_report_csv(g, reps, filename, outcome) ==
    IF g.job_details = <<>>
      THEN [reports |-> reps,
            log |-> <<LogRec("warning", "No Glue job details to save.", "")>>]
      ELSE GlueSaveTry(reps, filename, JobDetailsText(g.job_details), outcome,
               "Saving Glue jobs log paths report to CSV file",
               "Glue jobs log paths report successfully saved to",
               "Error saving Glue jobs log paths report to file")

save_buckets_report_csv(g, reps, filename, order, outcome) ==
    IF g.buckets = {}
      THEN [reports |-> reps, log |-> <<LogRec("warning", "No buckets to save.", "")>>]
      ELSE GlueSaveTry(reps, filename, BucketsText(order), outcome,
               "Saving Glue jobs buckets report to CSV file",
               "Glue jobs buckets report successfully saved to",
               "Error saving Glue jobs buckets report to file")

\* The orders in which a set may give its elements.
Orders(S) ==
    {o \in [1..Cardinality(S) -> S] : \A i, j \in DOMAIN o : i # j => o[i] # o[j]}

ProcessGlueJobs ==
    \E jobs \in JobLists, client_error \in BOOLEAN :
        /\ Len(glue.job_details) + Len(jobs) <= MaxJobDetails
        /\ client_error => jobs = <<>>
        /\ LET r == process_glue_jobs(glue, jobs, client_error)
           IN  /\ glue' = [job_details |-> r.job_details, buckets |-> r.buckets]
               /\ call' = [op |-> "process_glue_jobs", jobs |-> jobs,
                           client_error |-> client_error, raised |-> r.raised,
                           log |-> r.log]
        /\ UNCHANGED <<files, live, policies, reports>>

SaveReportCsv ==
    \E outcome \in IF glue.job_details = <<>> THEN {Written} ELSE WriteOutcomes :
        LET r == save_report_csv(glue, reports, REPORT_GLUE_JOBS_REPORT_CSV, outcome)
        IN  /\ reports' = r.reports
            /\ call' = [op |-> "save_report_csv", outcome |-> outcome, log |-> r.log]
            /\ UNCHANGED <<files, live, policies, glue>>

SaveBucketsReportCsv ==
    \E outcome \in IF glue.buckets = {} THEN {Written} ELSE WriteOutcomes :
        \E order \in Orders(glue.buckets) :
            LET r == save_buckets_report_csv(glue, reports,
                         REPORT_GLUE_JOBS_BUCKETS_REPORT_CSV, order, outcome)
            IN  /\ reports' = r.reports
                /\ call' = [op |-> "save_buckets_report_csv", outcome |-> outcome,
                            log |-> r.log]
                /\ UNCHANGED <<files, live, policies, glue>>

NextGlue == ProcessGlueJobs \/ SaveReportCsv \/ SaveBucketsReportCsv

SpecGlue == InitReport /\ [][NextGlue]_vars

(***************************************************************************)
(* main, run without flags: process_and_save_lifecycle_policies.  The      *)
(* managers are built anew by every run, so a run starts with no record.   *)
(* The buckets may be changed by others while the run goes on: live2 is    *)
(* what they hold when the rules are fetched again for the export.         *)
(***************************************************************************)
\* A rule that expires the objects on a date: boto3 gives the date as a
\* datetime.
DateRule ==
    PyDict(<<PyItem("ID", PyStr("by-date")),
             PyItem("Status", PyStr("Enabled")),
             PyItem("Expiration",
                 PyDict(<<PyItem("Date", PyDate("2030-01-01 00:00:00+00:00"))>>))>>)

CliLive ==
    {[b \in Buckets |-> IF b = "b1" THEN PyList(<<Rule1>>) ELSE PyList(<<Rule2>>)],
     [b \in Buckets |-> IF b = "b1" THEN NoRules ELSE PyList(<<Rule2, Rule1>>)],
     [b \in Buckets |-> IF b = "b1" THEN PyList(<<DateRule>>) ELSE PyList(<<Rule2>>)]}

\* The names list_buckets gives: those of the account's buckets, sorted; an
\* account may have no bucket.
Listings == {<<>>, <<"b1", "b2">>}

\* The outcomes of a write a run is followed through.
CliWriteOutcomes == {Written, [kind |-> "open_failed", cut |-> 0]}

\* list_buckets: the names of the reply, or none when the call raises
\* Boto3Error.
list_buckets(names, boto3_error) ==
    IF boto3_error
      THEN [names |-> <<>>, log |-> <<LogRec("error", "Error listing buckets", "")>>]
      ELSE [names |-> names, log |-> <<LogRec("info", "buckets found.", ToString(Len(names)))>>]

\* {policy["Bucket"]: manager.get_lifecycle_policy(policy["Bucket"]) for
\* policy in manager.policies}: one fetch per record; a key stands where it
\* first came and holds what was fetched last for it.
lifecycle_policies(pol, lv, outcomes) ==
    LET first == SelectSeq([i \in DOMAIN pol |-> i],
                     LAMBDA i : \A j \in 1..(i - 1) : pol[j].Bucket # pol[i].Bucket)
        last(b) == CHOOSE i \in DOMAIN pol :
                      /\ pol[i].Bucket = b
                      /\ \A j \in DOMAIN pol : pol[j].Bucket = b => j <= i
    IN  [k \in DOMAIN first |->
            [bucket |-> pol[first[k]].Bucket.s,
             rules |-> get_lifecycle_policy(lv, pol[first[k]].Bucket.s,
                           outcomes[last(pol[first[k]].Bucket)]).rules]]

MainDefaultPreamble ==
    <<LogRec("info", "Starting the S3 bucket lifecycle manager script.", ""),
      LogRec("info", "Process Glue logs flag is set to", "False"),
      LogRec("info", "Restore flag is set to", "False"),
      LogRec("info", "Bucket to restore is set to", "None"),
      LogRec("info", "Listing all S3 buckets.", "")>>

main_default_log(raised) ==
    Append(MainDefaultPreamble,
        IF raised THEN LogRec("error", "An unexpected error occurred", "")
        ELSE LogRec("info", "Finished the S3 bucket lifecycle manager script.", ""))

\* process_and_save_lifecycle_policies.  fetched: what the fetches of
\* process_buckets gave, bucket by bucket; report: the records of the run;
\* mapping: the dict given to the export; written: the buckets whose backup
\* file the export wrote in full.
\* env: the replies and outcomes the calls of the run get.
process_and_save_lifecycle_policies(fs, reps, lv, lv2, env) ==
    LET listed == list_buckets(env.names, env.boto3_error)
        processed == process_buckets(<<>>, lv, listed.names, env.outcomes)
        saved == save_policies_csv(processed.policies, reps,
                                   REPORT_LIFECYCLE_BUCKETS_CSV, env.csv_outcome)
        mapping == lifecycle_policies(processed.policies, lv2, env.outcomes2)
        exported == export_lifecycle_policies(fs, mapping, env.export_outcomes)
    IN  [files |-> exported.files, reports |-> saved.reports,
         policies |-> processed.policies, fetched |-> processed.fetched,
         mapping |-> mapping, export_log |-> exported.log,
         written |-> {exported.log[i].arg :
                         i \in {j \in DOMAIN exported.log :
                                   exported.log[j].msg = "Exported lifecycle policy for bucket"}},
         raised |-> exported.raised]

\* The replies a fetch may get, whatever the bucket holds.
FetchReplies == {"ok", "NoSuchLifecycleConfiguration", "AccessDenied"}

MaxFaults == 1

\* The number of fetches answered AccessDenied and of writes that failed.
Faults(outcomes, csv_outcome, outcomes2, export_outcomes) ==
    Cardinality({i \in DOMAIN outcomes : outcomes[i] = "AccessDenied"})
    + Cardinality({i \in DOMAIN outcomes2 : outcomes2[i] = "AccessDenied"})
    + Cardinality({i \in DOMAIN export_outcomes : export_outcomes[i] # Written})
    + (IF csv_outcome = Written THEN 0 ELSE 1)

MainDefault ==
    \E names \in Listings, boto3_error \in BOOLEAN, lv2 \in CliLive,
       csv_outcome \in CliWriteOutcomes :
        /\ boto3_error => names = <<>>
        /\ \E outcomes \in [DOMAIN names -> FetchReplies] :
             /\ \A i \in DOMAIN names : outcomes[i] \in FetchOutcomes(live, names[i])
             /\ \E report \in {process_buckets(<<>>, live, names, outcomes).policies} :
                    \E outcomes2 \in [DOMAIN report -> FetchReplies] :
                      \E export_outcomes \in
                           [1..Cardinality({report[i].Bucket : i \in DOMAIN report})
                               -> CliWriteOutcomes] :
                        /\ \A i \in DOMAIN report :
                              outcomes2[i] \in FetchOutcomes(lv2, report[i].Bucket.s)
                        /\ Faults(outcomes, csv_outcome, outcomes2, export_outcomes)
                              <= MaxFaults
                        /\ \E r \in {process_and_save_lifecycle_policies(files, reports,
                                        live, lv2,
                                        [names |-> names, boto3_error |-> boto3_error,
                                         outcomes |-> outcomes, csv_outcome |-> csv_outcome,
                                         outcomes2 |-> outcomes2,
                                         export_outcomes |-> export_outcomes])} :
                               /\ \A i \in DOMAIN r.mapping :
                                     ~Truthy(r.mapping[i].rules)
                                        => export_outcomes[i] = Written
                               /\ files' = r.files
                               /\ reports' = r.reports
                               /\ policies' = r.policies
                               /\ live' = lv2
                               /\ call' = [op |-> "main_default", bucket_names |-> names,
                                           outcomes |-> outcomes, fetched |-> r.fetched,
                                           outcomes2 |-> outcomes2, mapping |-> r.mapping,
                                           export_outcomes |-> export_outcomes,
                                           export_log |-> r.export_log,
                                           written |-> r.written, raised |-> r.raised,
                                           main_log |-> main_default_log(r.raised)]
                               /\ UNCHANGED glue

InitCli ==
    /\ files = EmptyDir
    /\ live \in CliLive
    /\ call = NoCall
    /\ policies = <<>>
    /\ reports = EmptyDir
    /\ glue = NoGlue

NextCli == MainDefault

SpecCli == InitCli /\ [][NextCli]_vars

(***************************************************************************)
(* Vocabulary of the properties.                                           *)
(***************************************************************************)
HasLog(log, level, msg) ==
    \E i \in DOMAIN log : log[i].level = level /\ log[i].msg = msg

AllWritten(outcomes) == \A i \in DOMAIN outcomes : outcomes[i].kind = "written"

\* A restore_lifecycle_policies call was the last call made.
Restored == call.op = "restore" /\ call.bucket # ""

\* A JSON array of objects.
IsRuleSeq(v) == v.t = "list" /\ \A i \in DOMAIN v.kids : v.kids[i].t = "dict"

\* File f is the same in directories fs and gs: absent in both, or equal text.
SameFile(fs, gs, f) ==
    /\ Exists(fs, f) <=> Exists(gs, f)
    /\ Exists(fs, f) => fs[f] = gs[f]

TwoRules == PyList(<<Rule2, Rule1>>)

RestoreMissingFile ==
    (Restored /\ ~Exists(files, BackupFile(call.bucket)))
    => /\ ~call.raised
       /\ call.puts = <<>>
       /\ call.log = <<LogRec("error", "Backup file does not exist",
                              BackupFile(call.bucket))>>

RestoreMissingFileDone ==
    /\ Restored
    /\ call.bucket = "b1"
    /\ ~Exists(files, BackupFile("b1"))
    /\ Exists(files, BackupFile("b2"))

(***************************************************************************)
(* C3                                                                      *)
(***************************************************************************)
\* C3: a restore of a bucket whose backup file exists but does not parse
\* logs a read error, returns without raising and makes no put call.
CorruptBackupSkipped ==
    (Restored /\ Exists(files, BackupFile(call.bucket))
              /\ ~json_load(files[BackupFile(call.bucket)]).ok)
    => /\ ~call.raised
       /\ call.puts = <<>>
       /\ HasLog(call.log, "error", "Error reading backup file")

(***************************************************************************)
(* C4                                                                      *)
(***************************************************************************)
\* C4: a restore of a bucket whose backup file parses to a value that is
\* not a sequence of rule objects fails with a read error and makes no put
\* call.
NonRuleBackupRefused ==
    (Restored /\ Exists(files, BackupFile(call.bucket))
              /\ json_load(files[BackupFile(call.bucket)]).ok
              /\ ~IsRuleSeq(json_load(files[BackupFile(call.bucket)]).v))
    => /\ call.puts = <<>>
       /\ HasLog(call.log, "error", "Error reading backup file")

(***************************************************************************)
(* C5                                                                      *)
(***************************************************************************)
\* C5: a restore makes at most one put call; when the storage service
\* rejects it, the restore has made exactly one, has logged the error
\* "Failed to restore lifecycle policy for bucket" and returns without
\* raising.
RestoreRejectedOnce ==
    Restored
    => /\ Len(call.puts) <= 1
       /\ call.reply = "ClientError"
            => /\ ~call.raised
               /\ Len(call.puts) = 1
               /\ call.log = <<LogRec("error",
                                  "Failed to restore lifecycle policy for bucket",
                                  call.bucket)>>

RestoreRejectedDone ==
    /\ Restored
    /\ call.reply = "ClientError"
    /\ call.puts = <<PutCall("b1", PyList(<<Rule1>>))>>

(***************************************************************************)
(* C6                                                                      *)
(***************************************************************************)
\* C6: main logs "Successfully restored lifecycle policies for bucket" only
\* if the backup file existed, was read, and the put call was accepted.
RestoreSuccessOnlyIfCompleted ==
    (Restored /\ HasLog(call.main_log, "info",
                        "Successfully restored lifecycle policies for bucket"))
    => call.reply = "accepted"

(***************************************************************************)
(* C7                                                                      *)
(***************************************************************************)
\* C7: a restore whose put is accepted leaves bucket B with exactly the
\* value of B's backup file, whatever B held before, and changes no other
\* bucket; repeating it leaves the buckets as they were after the first.
RestoreReplaces ==
    [][(call'.op = "restore" /\ call'.reply = "accepted")
          => /\ live' = [live EXCEPT ![call'.bucket] =
                             json_load(files[BackupFile(call'.bucket)]).v]
             /\ call'.again => live' = live]_vars

\* b2, which held one rule of its own, holds the two backed-up rules after
\* a second accepted restore.
RestoreReplacesDone ==
    /\ Restored
    /\ call.bucket = "b2"
    /\ call.reply = "accepted"
    /\ call.again
    /\ live["b2"] = TwoRules

(***************************************************************************)
(* C8                                                                      *)
(***************************************************************************)
\* C8: an export leaves the backup file of every bucket given an empty rule
\* sequence as it was (absent or unchanged), logs the skip at info level in
\* the bucket's turn, and still writes the file of every other bucket of
\* the mapping whose write succeeds.
ExportSkipsEmpty ==
    [][call'.op = "export"
          => \A i \in DOMAIN call'.mapping :
                ~Truthy(call'.mapping[i].rules)
                => /\ SameFile(files, files', BackupFile(call'.mapping[i].bucket))
                   /\ Len(call'.log) = Len(call'.mapping)
                   /\ call'.log[i] = LogRec("info",
                          "No lifecycle configuration to export for bucket",
                          call'.mapping[i].bucket)
                   /\ \A j \in DOMAIN call'.mapping :
                         (Truthy(call'.mapping[j].rules)
                              /\ call'.outcomes[j].kind = "written")
                         => /\ Exists(files', BackupFile(call'.mapping[j].bucket))
                            /\ files'[BackupFile(call'.mapping[j].bucket)]
                                  = json_dump(call'.mapping[j].rules)]_vars

\* b1 was skipped and has no file; b2, after it in the mapping, was written.
ExportSkipsEmptyDone ==
    /\ call.op = "export"
    /\ call.mapping = <<[bucket |-> "b1", rules |-> NoRules],
                        [bucket |-> "b2", rules |-> TwoRules]>>
    /\ ~Exists(files, BackupFile("b1"))
    /\ files[BackupFile("b2")] = json_dump(TwoRules)

(***************************************************************************)
(* C9                                                                      *)
(***************************************************************************)
\* C9 (as stated): after an export that gives bucket B an empty rule
\* sequence, list_backups() does not contain B's backup file name.
EmptyExportUnlisted ==
    call.op = "export"
    => \A i \in DOMAIN call.mapping :
          ~Truthy(call.mapping[i].rules)
          => BackupFile(call.mapping[i].bucket) \notin list_backups(files)

\* C9 (amended): an export that gives bucket B an empty rule sequence leaves
\* list_backups() containing B's backup file name exactly when it did before
\* the call: the file is never created, and a file left by an earlier export
\* stays listed.
EmptyExportKeepsListing ==
    [][call'.op = "export"
          => \A i \in DOMAIN call'.mapping :
                ~Truthy(call'.mapping[i].rules)
                => (BackupFile(call'.mapping[i].bucket) \in list_backups(files')
                      <=> BackupFile(call'.mapping[i].bucket) \in list_backups(files))]_vars

\* b1 was given an empty rule sequence and its file is listed.
StaleBackupListed ==
    /\ call.op = "export"
    /\ call.mapping = <<[bucket |-> "b1", rules |-> NoRules]>>
    /\ BackupFile("b1") \in list_backups(files)

ExportTarget(mapping, f) ==
    \E i \in DOMAIN mapping :
        f = BackupFile(mapping[i].bucket) /\ Truthy(mapping[i].rules)

\* C11: an export creates or overwrites only the backup files of the buckets
\* of its mapping that have rules; every other file of the directory is
\* still there afterwards, with the text it had.
ExportFrame ==
    [][call'.op = "export" =>
          /\ \A f \in DOMAIN files :
                f \in DOMAIN files' /\ (~ExportTarget(call'.mapping, f) => files'[f] = files[f])
          /\ \A f \in DOMAIN files' \ DOMAIN files : ExportTarget(call'.mapping, f)]_vars

\* An export of b1 alone has overwritten b1's backup file; the stale backups
\* of b2 and of the deleted bucket and the other files are as they were.
ExportFrameDone ==
    /\ call.op = "export"
    /\ call.mapping = <<[bucket |-> "b1", rules |-> PyList(<<Rule1>>)]>>
    /\ DOMAIN files = {BackupFile("b1"), BackupFile("b2"), BackupFile(GoneBucket)}
                          \cup OtherFiles
    /\ files[BackupFile("b1")] = json_dump(PyList(<<Rule1>>))
    /\ files[BackupFile("b2")] = "[\n    7\n]"
    /\ \A f \in OtherFiles \cup {BackupFile(GoneBucket)} : files[f] = "x"

(***************************************************************************)
(* C12                                                                     *)
(***************************************************************************)
\* The rules the mapping gives for bucket b, NoRules when it gives none.
ExportedRules(mapping, b) ==
    IF \E i \in DOMAIN mapping : mapping[i].bucket = b
      THEN (CHOOSE m \in {mapping[i] : i \in DOMAIN mapping} : m.bucket = b).rules
      ELSE NoRules

\* C12: when every write succeeds, every backup file export has created
\* holds a non-empty sequence of rules, and this sequence is the last
\* non-empty one exported for the bucket: an export giving the bucket a
\* non-empty sequence leaves that sequence in the file, any other export
\* leaves the file as it was (an empty sequence is never written).
BackupHoldsLatest ==
    /\ [](\A b \in Buckets :
            Exists(files, BackupFile(b)) =>
                /\ json_load(files[BackupFile(b)]).ok
                /\ IsRuleSeq(json_load(files[BackupFile(b)]).v)
                /\ Truthy(json_load(files[BackupFile(b)]).v))
    /\ [][call'.op = "export" =>
            \A b \in Buckets :
                IF Truthy(ExportedRules(call'.mapping, b))
                  THEN /\ Exists(files', BackupFile(b))
                       /\ json_load(files'[BackupFile(b)]).v = ExportedRules(call'.mapping, b)
                  ELSE SameFile(files, files', BackupFile(b))]_vars

\* b1 was exported with one rule and then with none: its file holds the rule.
BackupHoldsLatestDone ==
    /\ call.op = "export"
    /\ call.mapping = <<[bucket |-> "b1", rules |-> NoRules],
                        [bucket |-> "b2", rules |-> TwoRules]>>
    /\ Exists(files, BackupFile("b1"))
    /\ json_load(files[BackupFile("b1")]).v = PyList(<<Rule1>>)
    /\ json_load(files[BackupFile("b2")]).v = TwoRules

(***************************************************************************)
(* C13                                                                     *)
(***************************************************************************)
\* C13: list_backups returns the names of the files of the directory that
\* are named <bucket>_lifecycle_backup.json, all of them and no other name,
\* whether or not the bucket still exists, and leaves the directory as it is.
ListBackupsExact ==
    [][call'.op = "list_backups" =>
          /\ files' = files
          /\ call'.listing =
                {f \in DOMAIN files :
                    \E b \in Buckets \cup {GoneBucket} : f = BackupFile(b)}]_vars

\* A directory holding three backups, one of a deleted bucket, and two other
\* files was listed.
ListBackupsDone ==
    /\ call.op = "list_backups"
    /\ call.listing = {BackupFile("b1"), BackupFile("b2"), BackupFile(GoneBucket)}
    /\ OtherFiles \subseteq DOMAIN files

(***************************************************************************)
(* Vocabulary of the properties of the flat records.                       *)
(***************************************************************************)
NineKeys ==
    {"Bucket", "Status", "ID", "Prefix", "Transitions", "ExpirationDays",
     "NoncurrentVersionTransitions", "NoncurrentVersionExpirationDays",
     "AbortIncompleteMultipartUploadDays"}

\* from_rule was the last call made, and it returned a record.
Normalized == call.op = "from_rule" /\ ~call.raised

\* Every field but Bucket of record is as in the record of a bucket without rules.
NoRulesFields(record) ==
    \A k \in DOMAIN record \ {"Bucket"} :
        record[k] = IF k = "Status" THEN PyStr("No Rules") ELSE PyStr("N/A")

\* The number of records process_buckets appends for what a bucket returned.
RecordsOf(rules) == IF Truthy(rules) THEN Len(rules.kids) ELSE 1

\* The number of records appended for the first n buckets.
RECURSIVE RecordsBefore(_, _)
RecordsBefore(fetched, n) ==
    IF n = 0 THEN 0 ELSE RecordsBefore(fetched, n - 1) + RecordsOf(fetched[n])

\* The text of days_key or "StorageClass" in a transition entry.
Slot(entry, key) == IF HasKey(entry, key) THEN Str(Item(entry, key)) ELSE "N/A"

Clause(entry, days_key) ==
    Slot(entry, days_key) \o " days to " \o Slot(entry, "StorageClass")

\* The number of places of text where sub begins.
Occurrences(text, sub) ==
    Cardinality({i \in 1..(Len(text) - Len(sub) + 1) :
                    SubSeq(text, i, i + Len(sub) - 1) = sub})

(***************************************************************************)
(* C14                                                                     *)
(***************************************************************************)
\* C14 (as stated): every record from_rule returns, the record of
\* default_policy and every record process_buckets has gathered have the
\* nine keys.
AllFieldsEverywhere ==
    /\ Normalized => DOMAIN call.record = NineKeys
    /\ call.op = "default_policy" => DOMAIN call.record = NineKeys
    /\ \A i \in DOMAIN policies : DOMAIN policies[i] = NineKeys

\* C14 (amended): every record from_rule returns and every record
\* process_buckets has gathered, for a rule or for a bucket without rules,
\* have the nine keys; the record of default_policy has the eight keys other
\* than Bucket.
AllFields ==
    /\ Normalized => DOMAIN call.record = NineKeys
    /\ call.op = "default_policy" => DOMAIN call.record = NineKeys \ {"Bucket"}
    /\ \A i \in DOMAIN policies : DOMAIN policies[i] = NineKeys

\* A rule without any field was normalized after process_buckets gathered
\* the record of a bucket without rules and the record of a rule.
AllFieldsDone ==
    /\ Normalized
    /\ call.rule = EmptyDict
    /\ Len(policies) = 2
    /\ policies[1].Status = PyStr("No Rules")
    /\ policies[2].Status = PyStr("Enabled")

(***************************************************************************)
(* C15                                                                     *)
(***************************************************************************)
\* C15: from_rule returns a record for every rule, partial or malformed: it
\* never raises.
NormalizerNeverRaises ==
    call.op = "from_rule" => (~call.raised /\ DOMAIN call.record = NineKeys)

(***************************************************************************)
(* C16                                                                     *)
(***************************************************************************)
\* C16 (as stated): the record of default_policy and the record
\* process_buckets appends for a bucket without rules have Bucket, the
\* bucket's name, Status "No Rules" and "N/A" in every other field.
SentinelEverywhere ==
    /\ call.op = "default_policy" =>
          /\ DOMAIN call.record = NineKeys
          /\ NoRulesFields(call.record)
    /\ (call.op = "process_buckets" /\ ~call.raised) =>
          \A i \in DOMAIN call.bucket_names :
              ~Truthy(call.fetched[i]) =>
                  LET record == call.added[RecordsBefore(call.fetched, i)]
                  IN  /\ DOMAIN record = NineKeys
                      /\ record.Bucket = PyStr(call.bucket_names[i])
                      /\ NoRulesFields(record)

\* C16 (amended): the record process_buckets appends for a bucket without
\* rules has Bucket, the bucket's name, Status "No Rules" and "N/A" in every
\* other field; default_policy takes no bucket name and its record has these
\* eight other fields and no Bucket.
SentinelOfProcessBuckets ==
    /\ call.op = "default_policy" =>
          /\ DOMAIN call.record = NineKeys \ {"Bucket"}
          /\ NoRulesFields(call.record)
    /\ (call.op = "process_buckets" /\ ~call.raised) =>
          \A i \in DOMAIN call.bucket_names :
              ~Truthy(call.fetched[i]) =>
                  LET record == call.added[RecordsBefore(call.fetched, i)]
                  IN  /\ DOMAIN record = NineKeys
                      /\ record.Bucket = PyStr(call.bucket_names[i])
                      /\ NoRulesFields(record)

\* process_buckets was given a bucket with a rule and then one without.
SentinelAppended ==
    /\ call.op = "process_buckets"
    /\ call.bucket_names = <<"b2", "b1">>
    /\ Len(call.added) = 2
    /\ call.added[1].Status = PyStr("Enabled")
    /\ call.added[2].Bucket = PyStr("b1")
    /\ call.added[2].Status = PyStr("No Rules")
    /\ policies = call.added

(***************************************************************************)
(* C17                                                                     *)
(***************************************************************************)
\* The Prefix the claim gives for a rule.
ClaimedPrefix(rule) ==
    LET filter == Get(rule, "Filter", EmptyDict)
        prefix == IF HasKey(filter, "Prefix") /\ Item(filter, "Prefix").s # ""
                    THEN Item(filter, "Prefix").s
                    ELSE "No Prefix"
    IN  IF HasKey(filter, "Tag")
          THEN prefix \o ", Tag: " \o Item(Item(filter, "Tag"), "Key").s
                      \o "=" \o Item(Item(filter, "Tag"), "Value").s
          ELSE prefix

\* C17: the Prefix of the record is Filter.Prefix, or "No Prefix" when the
\* filter or its prefix is absent or the prefix is empty, followed by
\* ", Tag: <key>=<value>" when the filter has a tag.
PrefixRendering ==
    Normalized => call.record.Prefix = PyStr(ClaimedPrefix(call.rule))

(***************************************************************************)
(* C18                                                                     *)
(***************************************************************************)
\* C18: Transitions and NoncurrentVersionTransitions hold one clause
\* "<days> days to <storage class>" per entry, in the order of the entries,
\* joined by ", ", with "N/A" in the place of a missing day count or
\* storage class; the field is "N/A" exactly when there is no entry.
TransitionsRendering ==
    Normalized =>
        \A p \in {<<"Transitions", "Days">>,
                  <<"NoncurrentVersionTransitions", "NoncurrentDays">>} :
            LET entries == Get(call.rule, p[1], NoRules).kids
                text == call.record[p[1]]
            IN  /\ text.t = "str"
                /\ (text.s = "N/A") <=> (entries = <<>>)
                /\ entries # <<>> =>
                      /\ text.s = Join([i \in DOMAIN entries |-> Clause(entries[i], p[2])], ", ")
                      /\ Occurrences(text.s, " days to ") = Len(entries)
                      /\ Occurrences(text.s, ", ") = Len(entries) - 1

\* Two transitions, one without storage class and one without day count,
\* were rendered.
TransitionsRendered ==
    /\ Normalized
    /\ call.record.Transitions = PyStr("30 days to N/A, N/A days to GLACIER")
    /\ call.record.NoncurrentVersionTransitions = PyStr("30 days to GLACIER")

(***************************************************************************)
(* C19                                                                     *)
(***************************************************************************)
\* C19 (as stated): NoncurrentVersionExpirationDays is the value of
\* NoncurrentVersionExpiration.Days when the rule has it, "N/A" otherwise.
NoncurrentExpirationFromDays ==
    Normalized =>
        call.record.NoncurrentVersionExpirationDays =
            IF /\ HasKey(call.rule, "NoncurrentVersionExpiration")
               /\ HasKey(Item(call.rule, "NoncurrentVersionExpiration"), "Days")
              THEN Item(Item(call.rule, "NoncurrentVersionExpiration"), "Days")
              ELSE PyStr("N/A")

\* C19 (amended): NoncurrentVersionExpirationDays is the value of
\* NoncurrentVersionExpiration.NoncurrentDays when the rule has it, "N/A"
\* otherwise; a Days key of NoncurrentVersionExpiration is not read.
NoncurrentExpirationFromNoncurrentDays ==
    Normalized =>
        call.record.NoncurrentVersionExpirationDays =
            IF /\ HasKey(call.rule, "NoncurrentVersionExpiration")
               /\ HasKey(Item(call.rule, "NoncurrentVersionExpiration"), "NoncurrentDays")
              THEN Item(Item(call.rule, "NoncurrentVersionExpiration"), "NoncurrentDays")
              ELSE PyStr("N/A")

\* A rule whose NoncurrentVersionExpiration has NoncurrentDays 365 and no
\* other field was normalized.
NoncurrentExpirationRendered ==
    /\ Normalized
    /\ call.rule = PyDict(<<PyItem("NoncurrentVersionExpiration",
                                   PyDict(<<PyItem("NoncurrentDays", PyInt(365))>>))>>)
    /\ call.record.NoncurrentVersionExpirationDays = PyInt(365)

(***************************************************************************)
(* C20                                                                     *)
(***************************************************************************)
\* rule[outer][inner] when the rule has both keys, "N/A" otherwise.
Nested(rule, outer, inner) ==
    IF HasKey(rule, outer) /\ HasKey(Item(rule, outer), inner)
      THEN Item(Item(rule, outer), inner)
      ELSE PyStr("N/A")

\* C20: Status is the rule's Status or "Unknown"; ID the rule's ID or
\* "No ID"; ExpirationDays is Expiration.Days or "N/A";
\* AbortIncompleteMultipartUploadDays is
\* AbortIncompleteMultipartUpload.DaysAfterInitiation or "N/A".  A rule
\* without any field gives Status "Unknown", ID "No ID", Prefix "No Prefix"
\* and "N/A" in every other field but Bucket.
ScalarDefaults ==
    Normalized =>
        /\ call.record.Status =
              IF HasKey(call.rule, "Status") THEN Item(call.rule, "Status")
              ELSE PyStr("Unknown")
        /\ call.record.ID =
              IF HasKey(call.rule, "ID") THEN Item(call.rule, "ID") ELSE PyStr("No ID")
        /\ call.record.ExpirationDays = Nested(call.rule, "Expiration", "Days")
        /\ call.record.AbortIncompleteMultipartUploadDays =
              Nested(call.rule, "AbortIncompleteMultipartUpload", "DaysAfterInitiation")
        /\ call.rule = EmptyDict =>
              call.record =
                  [Bucket |-> PyStr(call.bucket), Status |-> PyStr("Unknown"),
                   ID |-> PyStr("No ID"), Prefix |-> PyStr("No Prefix"),
                   Transitions |-> PyStr("N/A"), ExpirationDays |-> PyStr("N/A"),
                   NoncurrentVersionTransitions |-> PyStr("N/A"),
                   NoncurrentVersionExpirationDays |-> PyStr("N/A"),
                   AbortIncompleteMultipartUploadDays |-> PyStr("N/A")]

\* A rule without any field was normalized for bucket b2.
BareRuleNormalized ==
    /\ Normalized
    /\ call.rule = EmptyDict
    /\ call.bucket = "b2"
    /\ call.record.Status = PyStr("Unknown")

(***************************************************************************)
(* C21                                                                     *)
(***************************************************************************)
\* C21: get_lifecycle_policy returns for every reply of the service: the
\* bucket's rules for a response, the empty list for the error code
\* NoSuchLifecycleConfiguration, and the empty list with a warning logged
\* for any other error code; process_buckets then records the bucket as one
\* without rules.
FetchErrorsAreNoRules ==
    /\ call.op = "get_lifecycle_policy" =>
          /\ call.outcome = "ok" => call.rules = live[call.bucket]
          /\ call.outcome # "ok" => call.rules = PyList(<<>>)
          /\ call.outcome \notin {"ok", "NoSuchLifecycleConfiguration"} =>
                call.log = <<LogRec("warning",
                                    "Unable to get the lifecycle policy for bucket",
                                    call.bucket)>>
    /\ call.op = "process_buckets" =>
          /\ ~call.raised
          /\ \A i \in DOMAIN call.bucket_names :
                call.outcomes[i] # "ok" =>
                    /\ call.fetched[i] = PyList(<<>>)
                    /\ call.added[RecordsBefore(call.fetched, i)].Bucket =
                          PyStr(call.bucket_names[i])
                    /\ call.added[RecordsBefore(call.fetched, i)].Status = PyStr("No Rules")

\* The rules of a bucket that has some were asked for and access was denied.
FetchDenied ==
    /\ call.op = "get_lifecycle_policy"
    /\ call.outcome = "AccessDenied"
    /\ Truthy(live[call.bucket])
    /\ call.rules = PyList(<<>>)

(***************************************************************************)
(* C23                                                                     *)
(***************************************************************************)
\* C23: a process_buckets call that starts with no record gathered leaves,
\* bucket by bucket in the order of the names, one No Rules record for a
\* bucket whose fetched rule list is empty and one record per fetched rule,
\* in the order of the rules, for any other bucket, each with the bucket's
\* name; the records number the sum over the buckets of max(1, rules).
ProcessAppendsInOrder ==
    (call.op = "process_buckets" /\ policies = call.added) =>
        /\ Len(policies) = RecordsBefore(call.fetched, Len(call.bucket_names))
        /\ \A i \in DOMAIN call.bucket_names :
              \A j \in 1..RecordsOf(call.fetched[i]) :
                  LET record == policies[RecordsBefore(call.fetched, i - 1) + j]
                  IN  /\ record.Bucket = PyStr(call.bucket_names[i])
                      /\ IF Truthy(call.fetched[i])
                           THEN /\ record.ID =
                                      Get(call.fetched[i].kids[j], "ID", PyStr("No ID"))
                                /\ record.Status =
                                      Get(call.fetched[i].kids[j], "Status", PyStr("Unknown"))
                           ELSE NoRulesFields(record)

\* The two rules of b2 were recorded by a call that started with no record.
TwoRulesRecorded ==
    /\ call.op = "process_buckets"
    /\ call.bucket_names = <<"b2">>
    /\ Len(policies) = 2
    /\ policies[1].ID = PyStr("ExampleRule")
    /\ policies[2].ID = PyStr("test-rule")
    /\ policies[2].Bucket = PyStr("b2")

(***************************************************************************)
(* C27                                                                     *)
(***************************************************************************)
\* C27: every record process_buckets appends for a rule r of bucket B is
\* the record from_rule(B, r).
ReportRecordsAreNormalized ==
    (call.op = "process_buckets" /\ ~call.raised) =>
        \A i \in DOMAIN call.bucket_names :
            Truthy(call.fetched[i]) =>
                \A j \in 1..RecordsOf(call.fetched[i]) :
                    call.added[RecordsBefore(call.fetched, i - 1) + j] =
                        from_rule(call.bucket_names[i], call.fetched[i].kids[j]).record

(***************************************************************************)
(* C24                                                                     *)
(***************************************************************************)
\* C24: the records are discarded once they are saved: a process_buckets
\* call that directly follows a save_policies_csv call leaves only its own
\* records in the accumulator.
RecordsLiveOnePass ==
    [][(call.op = "save_policies_csv" /\ call'.op = "process_buckets")
          => policies' = call'.added]_vars

(***************************************************************************)
(* C25                                                                     *)
(***************************************************************************)
\* The places of a set of numbers, in increasing order.
Ascending(S) ==
    [k \in 1..Cardinality(S) |-> CHOOSE x \in S : Cardinality({y \in S : y < x}) = k - 1]

\* The places of text, between first and last, that hold the character c
\* outside quotes: a place is outside quotes when an even number of quote
\* characters precedes it.
Unquoted(text, first, last, c) ==
    LET quotes == {k \in first..last : Ch(text, k) = "\""}
    IN  {i \in first..last :
            Ch(text, i) = c /\ Cardinality({q \in quotes : q < i}) % 2 = 0}

\* A quoted field without its doubled quotes.
RECURSIVE Undouble(_, _)
Undouble(text, i) ==
    IF i > Len(text) THEN ""
    ELSE IF Ch(text, i) = "\"" /\ Ch(text, i + 1) = "\""
      THEN "\"" \o Undouble(text, i + 2)
    ELSE Ch(text, i) \o Undouble(text, i + 1)

ReadField(text) ==
    IF Len(text) >= 2 /\ Ch(text, 1) = "\"" /\ Ch(text, Len(text)) = "\""
      THEN Undouble(SubSeq(text, 2, Len(text) - 1), 1)
      ELSE text

\* The fields of one line, as csv.reader gives them.
ReadRow(line) ==
    LET commas == Ascending(Unquoted(line, 1, Len(line), ","))
        n      == Len(commas)
        from(k) == IF k = 1 THEN 1 ELSE commas[k - 1] + 1
        to(k)   == IF k = n + 1 THEN Len(line) ELSE commas[k] - 1
    IN  [k \in 1..(n + 1) |-> ReadField(SubSeq(line, from(k), to(k)))]

\* The rows of a CSV text, as csv.reader gives them: the lines end at the
\* "\r\n" outside quotes, and what follows the last of them is a row too.
ReadCsv(text) ==
    LET ends == Ascending({i \in Unquoted(text, 1, Len(text), "\r") : Ch(text, i + 1) = "\n"})
        n    == Len(ends)
        from(k) == IF k = 1 THEN 1 ELSE ends[k - 1] + 2
        rest == IF n = 0 THEN text ELSE SubSeq(text, ends[n] + 2, Len(text))
    IN  [k \in 1..n |-> ReadRow(SubSeq(text, from(k), ends[k] - 1))]
        \o (IF rest = "" THEN <<>> ELSE <<ReadRow(rest)>>)

\* The columns of the report, in the order the claim gives.
ReportColumns ==
    <<"Bucket", "Status", "ID", "Prefix", "Transitions", "ExpirationDays",
      "NoncurrentVersionTransitions", "NoncurrentVersionExpirationDays",
      "AbortIncompleteMultipartUploadDays">>

\* The report file holds the header and one row per record of pol, in order.
ReportHolds(reps, pol) ==
    /\ Exists(reps, "REPORT_lifecycle_buckets.csv")
    /\ ReadCsv(reps["REPORT_lifecycle_buckets.csv"]) =
          <<ReportColumns>>
          \o [i \in DOMAIN pol |->
                 [j \in DOMAIN ReportColumns |-> Str(pol[i][ReportColumns[j]])]]

RestoreNeedsBucket ==
    [][(call'.op = "restore" /\ call'.bucket = "")
          => /\ HasLog(call'.main_log, "error",
                       "Bucket name is required for restoring lifecycle policies.")
             /\ ~HasLog(call'.main_log, "info", "Restoring lifecycle policies for bucket")
             /\ ~HasLog(call'.main_log, "info", "Listing all S3 buckets.")
             /\ call'.log = <<>>
             /\ call'.puts = <<>>
             /\ call'.reply = "none"
             /\ ~call'.raised
             /\ <<files, live, policies, reports>>' = <<files, live, policies, reports>>]_vars

\* A run without --bucket on a directory that holds the backup of b1.
RestoreWithoutBucket ==
    /\ call.op = "restore"
    /\ call.bucket = ""
    /\ Exists(files, BackupFile("b1"))
    /\ Len(call.main_log) = 5

OneDetailPerJob ==
    /\ [](glue.buckets = {glue.job_details[i].BucketName.s : i \in DOMAIN glue.job_details})
    /\ [][call'.op = "process_glue_jobs"
            => /\ ~call'.raised
               /\ Len(glue'.job_details) = Len(glue.job_details) + Len(call'.jobs)
               /\ \A i \in DOMAIN call'.jobs :
                     glue'.job_details[Len(glue.job_details) + i].JobName
                        = Item(call'.jobs[i], "Name")
               /\ SubSeq(glue'.job_details, 1, Len(glue.job_details)) = glue.job_details
               /\ call'.client_error => glue' = glue]_vars

(***************************************************************************)
(* C22                                                                     *)
(***************************************************************************)
\* C22: a failure at one bucket ends neither pass: every bucket of the
\* names given to process_buckets is fetched once and has a record, and
\* every bucket of the mapping given to the export has its turn once: the
\* export logs one record for it, and its file is written when it has rules
\* and the write goes through.
EveryBucketVisited ==
    call.op = "main_default"
    => /\ Len(call.fetched) = Len(call.bucket_names)
       /\ \A i \in DOMAIN call.bucket_names :
             \E k \in DOMAIN policies : policies[k].Bucket.s = call.bucket_names[i]
       /\ Len(call.export_log) = Len(call.mapping)
       /\ \A i \in DOMAIN call.mapping :
             /\ call.export_log[i].arg
                   \in {call.mapping[i].bucket, BackupFile(call.mapping[i].bucket)}
             /\ (Truthy(call.mapping[i].rules) /\ call.export_outcomes[i].kind = "written")
                   => call.mapping[i].bucket \in call.written

(***************************************************************************)
(* C28                                                                     *)
(***************************************************************************)
\* C28: after a default run, a bucket's backup file was written by the run
\* exactly if the report of the run has a record of a rule of the bucket,
\* and the file then holds the rules those records were made from.
BackupAgreesWithReport ==
    call.op = "main_default"
    => \A i \in DOMAIN call.bucket_names :
          LET b == call.bucket_names[i]
          IN  /\ (b \in call.written)
                    <=> (\E k \in DOMAIN policies :
                            /\ policies[k].Bucket.s = b
                            /\ policies[k].Status.s # "No Rules")
              /\ b \in call.written
                    => json_load(files[BackupFile(b)]).v = call.fetched[i]
====
